---- MODULE Spec2Model ----
(***************************************************************************)
(* A model of the website crawler: the crawl frontier of SiteSpider        *)
(* (crawler/spiders/site_spider.py) under specification Spec, and the item *)
(* pipelines with the duplicate content analyzer (crawler/pipelines.py,    *)
(* duplicate_content_analyzer.py) under specification SpecDup.             *)
(*                                                                         *)
(* Strings whose characters the code inspects (netloc, path, query,        *)
(* fragment) are sequences of one-character strings.  A URL is the record  *)
(* of the six components urlparse returns; the string urlunparse builds    *)
(* from six components is represented by the record of those components.   *)
(* urlparse returns the scheme in lower case already.                      *)
(***************************************************************************)
EXTENDS Integers, Sequences, FiniteSets, TLC

VARIABLES
    \* ---- SiteSpider and the Scrapy engine driving it (Spec) ----
    start_urls,        \* SiteSpider.start_urls[0], the raw start URL
    allowed_domains,   \* SiteSpider.allowed_domains
    max_depth,         \* SiteSpider.max_depth
    visited_urls,      \* SiteSpider.visited_urls
    discovered_urls,   \* SiteSpider.discovered_urls
    skipped_pages,     \* SiteSpider.skipped_pages, a list
    pending,           \* requests the engine holds (scheduled or in flight)
    dupefilter,        \* URLs the scheduler's duplicate filter has seen
    collected_items,   \* pipelines._collected_items, a list
    issued,            \* history: how often each URL was put on pending
    last,              \* history: the last callback, its input and what it did
    \* ---- DuplicateDetectionPipeline (SpecDup) ----
    advanced_analyzer,       \* TRUE: a DuplicateContentAnalyzer, FALSE: None
    hash_to_urls,            \* content hash -> list of URLs
    url_to_content,          \* url -> text
    processed_items,         \* the items processed so far, a list
    spider_closed,           \* close_spider has run
    \* ---- DuplicateContentAnalyzer and its MinHashLSH (SpecDup) ----
    url_to_normalized_text,  \* a dict in insertion order: list of <<url, text>>
    url_to_hash,             \* url -> hash of the normalized text
    analyzer_hash_to_urls,   \* DuplicateContentAnalyzer.hash_to_urls
    url_to_shingles,         \* url -> set of shingles
    url_to_signature,        \* url -> MinHash signature
    lsh_buckets,             \* band_id -> band signature -> set of URLs
    \* ---- SiteSpider._normalize_url on URL strings (SpecUrl) ----
    url_string,          \* the URL string given to _normalize_url
    url_normalized,      \* what _normalize_url returned for it, once called
    url_renormalized,    \* what _normalize_url returned for url_normalized
    url_variant,         \* another spelling of url_string
    variant_normalized,  \* what _normalize_url returned for url_variant
    \* ---- the site that is crawled (SpecSite) ----
    site,                \* normalized URL of a page -> the anchors of its body
    \* ---- PagePowerAnalyzer (SpecPower) ----
    pages,               \* the page records given to analyze_site
    link_graph,          \* PagePowerAnalyzer.link_graph
    outgoing_links,      \* PagePowerAnalyzer.outgoing_links
    raw_power,           \* history: power after the last iteration
    page_powers,         \* PagePowerAnalyzer.page_powers
    power_raised,        \* the exception analyze_site raised, or "None"
    \* ---- CrawlerRunner and the job of the web interface (SpecRun) ----
    subprocess_run,      \* subprocess.run of the crawl script: how it stands
    result_file,         \* the file the crawl script writes its results to
    runner,              \* CrawlerRunner.crawled_items and .skipped_pages
    report_json,         \* what generate_reports was given
    job,                 \* active_crawls[job_id]
    progress_file,       \* progress.json, which the crawl script writes
    monitor,             \* the monitor_progress thread: where it is, its locals
    \* ---- a MinHashLSH called with signatures of any length (SpecLsh) ----
    lsh_call,            \* the signatures, the method called, what it gave
    \* ---- one PagePowerAnalyzer called several times (SpecAnalyzer) ----
    power_call           \* history: the calls so far, the last method and result

frontier_vars == <<start_urls, allowed_domains, max_depth, visited_urls,
                   discovered_urls, skipped_pages, pending, dupefilter,
                   collected_items, issued, last>>

pipeline_vars == <<advanced_analyzer, hash_to_urls, url_to_content,
                   processed_items, spider_closed>>

analyzer_vars == <<url_to_normalized_text, url_to_hash, analyzer_hash_to_urls,
                   url_to_shingles, url_to_signature, lsh_buckets>>

url_vars == <<url_string, url_normalized, url_renormalized, url_variant,
              variant_normalized>>

power_vars == <<pages, link_graph, outgoing_links, raw_power, page_powers,
                power_raised>>

run_vars == <<subprocess_run, result_file, runner, report_json, job, progress_file,
              monitor>>

vars == <<frontier_vars, pipeline_vars, analyzer_vars, url_vars, site, power_vars,
          run_vars, lsh_call, power_call>>

\* None where a URL is expected.  The empty string, which the code treats like
\* None (if not url), has these components too.
None == [scheme |-> "", netloc |-> <<>>, path |-> <<>>, params |-> <<>>,
         query |-> <<>>, fragment |-> <<>>]
\* None where a skip reason is expected
NoReason == "None"
\* no value yet: the call that gives it has not been made
NotCalled == <<"not called">>

\* progress.json before the crawl script has written it
NoProgressFile == [exists |-> FALSE, pages_crawled |-> 0, discovered_urls |-> 0]

\* the monitor_progress thread before it is started
MonitorNotStarted ==
    [at |-> "not started", iteration |-> 0, last_pages |-> 0, pages |-> 0,
     crawl_progress |-> 0]

\* no method of a PagePowerAnalyzer has been called as a call of its own
NoPowerCall == [calls |-> 0, name |-> "none", result |-> {}]

\* no method of a MinHashLSH has been called with signatures of the model's
\* choice
NoLshCall == [name |-> "none", sig1 |-> <<>>, sig2 |-> <<>>,
              result |-> [num |-> 0, den |-> 1], raised |-> "None"]

\* run_crawl_async has started a CrawlerRunner, whose crawl script runs
RunStarted ==
    /\ lsh_call = NoLshCall
    /\ power_call = NoPowerCall
    /\ subprocess_run = "running"
    /\ result_file = [exists |-> FALSE, items |-> <<>>, skipped_pages |-> <<>>]
    /\ runner = [crawled_items |-> <<>>, skipped_pages |-> <<>>]
    /\ report_json = [written |-> FALSE, items |-> <<>>, skipped_pages |-> <<>>]
    /\ job = [status |-> "crawling", message |-> "Starting to crawl website...",
              pages_crawled |-> 0, progress |-> 10]
    /\ progress_file = NoProgressFile
    /\ monitor = MonitorNotStarted

\* analyze_site is not called: there is no PagePowerAnalyzer yet
PowerIdle ==
    /\ RunStarted
    /\ pages = <<>>
    /\ link_graph = <<>>
    /\ outgoing_links = <<>>
    /\ raw_power = <<>>
    /\ page_powers = <<>>
    /\ power_raised = "None"

\* _normalize_url on URL strings is not looked at under Spec and SpecDup,
\* and neither is a site: Spec lets every fetch answer in any way
NormalizerIdle ==
    /\ PowerIdle
    /\ url_string = <<>>
    /\ url_normalized = NotCalled
    /\ url_renormalized = NotCalled
    /\ url_variant = <<>>
    /\ variant_normalized = NotCalled
    /\ site = <<>>

(***************************************************************************)
(* Bounds of the model.                                                    *)
(***************************************************************************)
MaxMaxDepth == 2       \* max_depth is drawn from 0..MaxMaxDepth
MaxLinks == 2          \* a page carries at most MaxLinks anchors
MaxPages == 3          \* SpecDup: at most MaxPages items pass the pipelines

(***************************************************************************)
(* Parameters of MinHashLSH as DuplicateContentAnalyzer.__init__ sets      *)
(* them, and the state of the pipelines when the crawl starts.             *)
(***************************************************************************)
num_perm == 128
num_bands == 16
rows_per_band == 8
shingle_size == 5
min_similarity == [num |-> 40, den |-> 100]     \* 0.40, a fraction

\* DuplicateDetectionPipeline.__init__, DuplicateContentAnalyzer.__init__ and
\* MinHashLSH.__init__; an empty dict is the function with empty domain.
PipelinesInit ==
    /\ hash_to_urls = <<>>
    /\ url_to_content = <<>>
    /\ processed_items = <<>>
    /\ spider_closed = FALSE
    /\ url_to_normalized_text = <<>>
    /\ url_to_hash = <<>>
    /\ analyzer_hash_to_urls = <<>>
    /\ url_to_shingles = <<>>
    /\ url_to_signature = <<>>
    /\ lsh_buckets = [band_id \in 0..(num_bands - 1) |-> <<>>]

(***************************************************************************)
(* Characters and strings.                                                 *)
(***************************************************************************)
\* str.lower() on one character
LowerChar(c) ==
    CASE c = "A" -> "a" [] c = "B" -> "b" [] c = "C" -> "c" [] c = "D" -> "d"
      [] c = "E" -> "e" [] c = "F" -> "f" [] c = "G" -> "g" [] c = "H" -> "h"
      [] c = "I" -> "i" [] c = "J" -> "j" [] c = "K" -> "k" [] c = "L" -> "l"
      [] c = "M" -> "m" [] c = "N" -> "n" [] c = "O" -> "o" [] c = "P" -> "p"
      [] c = "Q" -> "q" [] c = "R" -> "r" [] c = "S" -> "s" [] c = "T" -> "t"
      [] c = "U" -> "u" [] c = "V" -> "v" [] c = "W" -> "w" [] c = "X" -> "x"
      [] c = "Y" -> "y" [] c = "Z" -> "z" [] OTHER -> c

\* str.lower()
Lower(s) == [i \in 1..Len(s) |-> LowerChar(s[i])]

\* str.endswith(suffix)
EndsWith(s, suffix) ==
    /\ Len(s) >= Len(suffix)
    /\ SubSeq(s, Len(s) - Len(suffix) + 1, Len(s)) = suffix

\* str.rstrip('/')
RECURSIVE RStripSlash(_)
RStripSlash(s) ==
    IF s # <<>> /\ s[Len(s)] = "/"
    THEN RStripSlash(SubSeq(s, 1, Len(s) - 1))
    ELSE s

(***************************************************************************)
(* settings.IGNORED_EXTENSIONS                                             *)
(***************************************************************************)
IGNORED_EXTENSIONS ==
    { <<"j","p","g">>, <<"j","p","e","g">>, <<"p","n","g">>, <<"g","i","f">>,
      <<"b","m","p">>, <<"s","v","g">>, <<"i","c","o">>, <<"w","e","b","p">>,
      <<"p","d","f">>, <<"d","o","c">>, <<"d","o","c","x">>, <<"x","l","s">>,
      <<"x","l","s","x">>, <<"p","p","t">>, <<"p","p","t","x">>,
      <<"z","i","p">>, <<"r","a","r">>, <<"t","a","r">>, <<"g","z">>,
      <<"m","p","3">>, <<"m","p","4">>, <<"a","v","i">>, <<"m","o","v">>,
      <<"w","m","v">>, <<"f","l","v">>,
      <<"c","s","s">>, <<"j","s">>, <<"x","m","l">>, <<"j","s","o","n">>,
      <<"r","s","s">>, <<"a","t","o","m">> }

(***************************************************************************)
(* SiteSpider._normalize_url.  The argument is None (or the empty string)  *)
(* or the components urlparse gives for it.                                *)
(***************************************************************************)
_normalize_url(url) ==
    IF url = None THEN None
    ELSE IF url.scheme \notin {"http", "https"} THEN None
    ELSE IF \E path \in {Lower(url.path)} :
               \E ext \in IGNORED_EXTENSIONS : EndsWith(path, <<".">> \o ext)
         THEN None
    ELSE [scheme   |-> url.scheme,
          netloc   |-> Lower(url.netloc),
          path     |-> RStripSlash(url.path),
          params   |-> url.params,
          query    |-> url.query,
          fragment |-> <<>>]

(***************************************************************************)
(* The URLs of the modelled site.  Url(n, p, f) is https://<n><p>#<f>.     *)
(***************************************************************************)
Url(netloc, path, fragment) ==
    [scheme |-> "https", netloc |-> netloc, path |-> path,
     params |-> <<>>, query |-> <<>>, fragment |-> fragment]

Home       == Url(<<"e","x">>, <<"/">>, <<>>)               \* https://ex/
HomeUpper  == Url(<<"E","X">>, <<"/">>, <<>>)               \* https://EX/
PageA      == Url(<<"e","x">>, <<"/","a">>, <<>>)           \* https://ex/a
PageASlash == Url(<<"E","X">>, <<"/","a","/">>, <<>>)       \* https://EX/a/
PageB      == Url(<<"e","x">>, <<"/","b">>, <<"f">>)        \* https://ex/b#f
Script     == Url(<<"e","x">>, <<"/","i",".","J","S">>, <<>>) \* https://ex/i.JS
External   == Url(<<"o","t">>, <<"/","x">>, <<>>)           \* https://ot/x

StartURLs == {Home, HomeUpper}
\* the absolute URLs anchors of the site's pages point to
LinkURLs == {Home, PageASlash, PageB, Script, External}
\* where a request may end up other than at its own URL (the downloader
\* follows redirects; response.url is the final URL)
RedirectTargets == {PageASlash, Script}

LinkSets == {L \in SUBSET LinkURLs : Cardinality(L) <= MaxLinks}

(***************************************************************************)
(* Responses.  location: a non-empty Location header; noindex: a robots    *)
(* meta tag with noindex in the body; charset: 'charset' occurs in the     *)
(* Content-Type header; text: what reading response.text does ("ok", or    *)
(* the exception it raises); links: the anchors of the body.               *)
(***************************************************************************)
RedirectStatuses == {301, 302, 303, 307, 308}

ResponseKinds ==
    { [status |-> 200, location |-> FALSE, noindex |-> FALSE, charset |-> FALSE, text |-> "ok"],
      [status |-> 200, location |-> FALSE, noindex |-> FALSE, charset |-> TRUE,  text |-> "ok"],
      [status |-> 404, location |-> FALSE, noindex |-> FALSE, charset |-> FALSE, text |-> "ok"],
      [status |-> 301, location |-> TRUE,  noindex |-> FALSE, charset |-> FALSE, text |-> "ok"],
      [status |-> 308, location |-> FALSE, noindex |-> FALSE, charset |-> FALSE, text |-> "ok"],
      [status |-> 200, location |-> FALSE, noindex |-> TRUE,  charset |-> FALSE, text |-> "ok"],
      [status |-> 200, location |-> FALSE, noindex |-> FALSE, charset |-> TRUE,  text |-> "UnicodeDecodeError"],
      [status |-> 200, location |-> FALSE, noindex |-> FALSE, charset |-> FALSE, text |-> "UnicodeDecodeError"],
      [status |-> 200, location |-> FALSE, noindex |-> FALSE, charset |-> FALSE, text |-> "AttributeError"] }

\* the anchors of a body that cannot be read are not seen by anyone
Responses(req) ==
    UNION { { [url |-> u, status |-> k.status, location |-> k.location,
               noindex |-> k.noindex, charset |-> k.charset, text |-> k.text,
               links |-> L] :
                u \in {req.url} \cup RedirectTargets,
                L \in IF k.text = "ok" THEN LinkSets ELSE {{}} } :
            k \in ResponseKinds }

(***************************************************************************)
(* SiteSpider._check_skip_reasons                                          *)
(***************************************************************************)
_check_skip_reasons(response, normalized_url) ==
    IF response.status = 404
    THEN "Error 404 - Not Found"
    ELSE IF response.status \in RedirectStatuses /\ response.location
    THEN "HTTP Header Redirect"
    \* BeautifulSoup(response.text, 'lxml') inside try/except Exception: pass
    ELSE IF response.text = "ok" /\ response.noindex
    THEN "Robots meta tag contains noindex instruction"
    \* only (UnicodeDecodeError, LookupError) give the reason; any other
    \* exception is swallowed by the outer except Exception: pass
    ELSE IF response.charset /\ response.text = "UnicodeDecodeError"
    THEN "The character set of this page was not recognized."
    ELSE NoReason

(***************************************************************************)
(* SiteSpider._extract_links: the normalized URLs of the anchors, split    *)
(* by urlparse(normalized).netloc in self.allowed_domains.                 *)
(***************************************************************************)
_extract_links(response) ==
    LET clean(u) == [u EXCEPT !.fragment = <<>>]
        normalized == {_normalize_url(clean(u)) : u \in response.links} \ {None}
    IN  [internal |-> {n \in normalized : n.netloc \in allowed_domains},
         external |-> {n \in normalized : n.netloc \notin allowed_domains}]

(***************************************************************************)
(* Requests.  A request the spider yields carries errback=_handle_error    *)
(* and dont_filter=False; the start request Scrapy builds from start_urls  *)
(* has no errback, dont_filter=True and no depth (read as 0).              *)
(***************************************************************************)
Request(url, depth, errback) ==
    [url |-> url, depth |-> depth, errback |-> errback, retry_times |-> 0]

RequestableURLs == {_normalize_url(u) : u \in StartURLs \cup LinkURLs} \ {None}

NoCallback ==
    [kind |-> "init", url |-> None, depth |-> 0, status |-> 0,
     location |-> FALSE, noindex |-> FALSE, charset |-> FALSE, text |-> "ok",
     had_links |-> FALSE, errback |-> FALSE,
     outcome |-> "none", enqueued |-> {}]

(***************************************************************************)
(* SiteSpider.parse, piece by piece.                                       *)
(***************************************************************************)
\* the check of line 109 left out
AlreadyVisited_never(normalized_url) == FALSE

\* line 109: if normalized_url in self.visited_urls: return
AlreadyVisited(normalized_url) == normalized_url \in visited_urls

\* lines 116-121: the record appended to skipped_pages
SkippedPage(url, skip_reason, status_code) ==
    [url |-> url, skip_reason |-> skip_reason, status_code |-> status_code]

\* lines 133, 175: _extract_content reads response.text and raises what that
\* raises; parse has no handler around it
ExtractRaises(response) == response.text # "ok"

\* line 156 with depth for depth + 1
FollowRequests_same_depth(response, depth, visited) ==
    IF depth < max_depth
    THEN { Request(n, depth, TRUE) :
             n \in { m \in {_normalize_url(l) : l \in _extract_links(response).internal} :
                       m # None /\ m \notin visited } }
    ELSE {}

\* line 136 with <= for <
FollowRequests_off_by_one(response, depth, visited) ==
    IF depth <= max_depth
    THEN { Request(n, depth + 1, TRUE) :
             n \in { m \in {_normalize_url(l) : l \in _extract_links(response).internal} :
                       m # None /\ m \notin visited } }
    ELSE {}

\* lines 136-159: the requests parse yields, given the visited set after
\* line 125.  The link URLs _extract_links returns are normalized once more.
FollowRequests(response, depth, visited) ==
    IF depth < max_depth
    THEN { Request(n, depth + 1, TRUE) :
             n \in { m \in {_normalize_url(l) : l \in _extract_links(response).internal} :
                       m # None /\ m \notin visited } }
    ELSE {}

\* the scheduler: a request with dont_filter=False is dropped when the
\* duplicate filter has seen its URL, and remembered otherwise
Scheduled(requests) == {r \in requests : r.url \notin dupefilter}

\* lines 256-297 and ItemStoragePipeline.process_item: the stored item
PageItem(normalized_url, response) ==
    [url |-> normalized_url, status_code |-> response.status]

Callback(kind, req, response, url, outcome, enqueued) ==
    [kind |-> kind, url |-> url, depth |-> req.depth, status |-> response.status,
     location |-> response.location, noindex |-> response.noindex,
     charset |-> response.charset, text |-> response.text,
     had_links |-> response.links # {}, errback |-> req.errback,
     outcome |-> outcome,
     enqueued |-> {r.url : r \in enqueued}]

Count(bag, urls) == [u \in DOMAIN bag |-> IF u \in urls THEN bag[u] + 1 ELSE bag[u]]

Parse(req, response) ==
    \E normalized_url \in {_normalize_url(response.url)} :
    \E skip_reason \in {_check_skip_reasons(response, normalized_url)} :
    \E visited \in {visited_urls \cup {normalized_url}} :
    \E requests \in {FollowRequests(response, req.depth, visited)} :
    \E new \in {Scheduled(requests)} :
        /\ req \in pending
        /\ UNCHANGED <<start_urls, allowed_domains, max_depth>>
        /\ UNCHANGED <<pipeline_vars, analyzer_vars, url_vars, site, power_vars, run_vars, lsh_call, power_call>>
        /\ IF normalized_url = None
           THEN /\ pending' = pending \ {req}
                /\ last' = Callback("parse", req, response, None, "invalid", {})
                /\ UNCHANGED <<visited_urls, discovered_urls, skipped_pages,
                               dupefilter, collected_items, issued>>
           ELSE IF AlreadyVisited(normalized_url)
           THEN /\ pending' = pending \ {req}
                /\ last' = Callback("parse", req, response, normalized_url, "visited", {})
                /\ UNCHANGED <<visited_urls, discovered_urls, skipped_pages,
                               dupefilter, collected_items, issued>>
           ELSE IF skip_reason # NoReason
           THEN /\ skipped_pages' = Append(skipped_pages,
                        SkippedPage(normalized_url, skip_reason, response.status))
                /\ discovered_urls' = discovered_urls \cup {normalized_url}
                /\ pending' = pending \ {req}
                /\ last' = Callback("parse", req, response, normalized_url, "skipped", {})
                /\ UNCHANGED <<visited_urls, dupefilter, collected_items, issued>>
           ELSE IF ExtractRaises(response)
           THEN /\ visited_urls' = visited
                /\ discovered_urls' = discovered_urls \cup {normalized_url}
                /\ pending' = pending \ {req}
                /\ last' = Callback("parse", req, response, normalized_url, "raised", {})
                /\ UNCHANGED <<skipped_pages, dupefilter, collected_items, issued>>
           ELSE /\ visited_urls' = visited
                /\ discovered_urls' = discovered_urls \cup {normalized_url}
                                        \cup {r.url : r \in requests}
                /\ pending' = (pending \ {req}) \cup new
                /\ dupefilter' = dupefilter \cup {r.url : r \in new}
                /\ issued' = Count(issued, {r.url : r \in new})
                /\ collected_items' = Append(collected_items,
                                             PageItem(normalized_url, response))
                /\ last' = Callback("parse", req, response, normalized_url, "item", new)
                /\ UNCHANGED skipped_pages

(***************************************************************************)
(* Download failures.  message: what str(failure.value) contains.          *)
(***************************************************************************)
Failures ==
    { [error |-> "TimeoutError", has404 |-> FALSE, timeout |-> TRUE, connection |-> TRUE],
      [error |-> "ConnectionRefusedError", has404 |-> FALSE, timeout |-> FALSE, connection |-> TRUE],
      [error |-> "DNSLookupError", has404 |-> FALSE, timeout |-> FALSE, connection |-> FALSE] }

\* lines 647-656 of SiteSpider._handle_error
ErrorReason(failure) ==
    IF failure.has404 THEN "Error 404 - Not Found"
    ELSE IF failure.timeout THEN "Request Timeout"
    ELSE IF failure.connection THEN "Connection Error"
    ELSE "Error: " \o failure.error

\* SiteSpider._handle_error: the new value of skipped_pages
_handle_error(req, failure) ==
    LET normalized_url == _normalize_url(req.url)
    IN  IF normalized_url # None
           /\ normalized_url \notin {skipped_pages[i].url : i \in DOMAIN skipped_pages}
        THEN Append(skipped_pages, SkippedPage(normalized_url, ErrorReason(failure), 0))
        ELSE skipped_pages

\* the errback a request carries, if any, is what the engine calls
HasErrback(req) == req.errback

NoResponse ==
    [url |-> None, status |-> 0, location |-> FALSE, noindex |-> FALSE,
     charset |-> FALSE, text |-> "ok", links |-> {}]

\* the download of a request fails for good: the retry middleware has sent it
\* RETRY_TIMES more times and given up
DownloadFailed(req, failure) ==
    /\ req \in pending
    /\ pending' = pending \ {req}
    /\ skipped_pages' = IF HasErrback(req) THEN _handle_error(req, failure)
                        ELSE skipped_pages
    /\ last' = Callback(IF HasErrback(req) THEN "errback" ELSE "failure", req,
                        NoResponse, _normalize_url(req.url),
                        IF skipped_pages' # skipped_pages THEN "skipped" ELSE "none", {})
    /\ UNCHANGED <<pipeline_vars, analyzer_vars, url_vars, site, power_vars, run_vars, lsh_call, power_call>>
    /\ UNCHANGED <<start_urls, allowed_domains, max_depth, visited_urls,
                   discovered_urls, dupefilter, collected_items, issued>>

(***************************************************************************)
(* SiteSpider.__init__ and the start request.                              *)
(***************************************************************************)
Init ==
    /\ start_urls \in {<<s>> : s \in StartURLs}
    /\ allowed_domains = {start_urls[1].netloc}
    /\ max_depth \in 0..MaxMaxDepth
    /\ visited_urls = {}
    /\ discovered_urls = {}
    /\ skipped_pages = <<>>
    /\ pending = {Request(start_urls[1], 0, FALSE)}
    /\ dupefilter = {}
    /\ collected_items = <<>>
    /\ issued = [u \in RequestableURLs |->
                    IF u = _normalize_url(start_urls[1]) THEN 1 ELSE 0]
    /\ last = NoCallback
    /\ advanced_analyzer = TRUE
    /\ PipelinesInit
    /\ NormalizerIdle

Next ==
    \/ \E req \in pending : \E response \in Responses(req) : Parse(req, response)
    \/ \E req \in pending : \E failure \in Failures : DownloadFailed(req, failure)

Spec == Init /\ [][Next]_vars

(***************************************************************************)
(* Properties of the crawl frontier (Spec).                                *)
(***************************************************************************)
ItemURLs == {collected_items[i].url : i \in DOMAIN collected_items}
SkippedURLs == {skipped_pages[i].url : i \in DOMAIN skipped_pages}
RunEnded == pending = {}

\* C1: no two stored PageRecords have the same normalized url, in every
\* reachable state of a run.
C1_UniquePageURLs ==
    \A i, j \in DOMAIN collected_items :
        i # j => collected_items[i].url # collected_items[j].url

\* C1 witness: a response arrived whose normalized URL had been visited
\* through another request, and parse dropped it.
C1_Witness ==
    /\ last.kind = "parse" /\ last.outcome = "visited"
    /\ last.url \in ItemURLs

\* C2: every normalized URL is put on the pending queue at most once in a run.
C2_EnqueuedAtMostOnce == \A u \in RequestableURLs : issued[u] <= 1

\* C3 as stated: with max_depth = 0 a finished run returns exactly one page.
C3_ExactlyOnePageAtDepthZero ==
    (max_depth = 0 /\ RunEnded) => Len(collected_items) = 1

\* C3 as amended: requests are yielded only by a page parsed at a depth below
\* max_depth, each at that depth plus one; every request ever fetched has a
\* depth of at most max_depth; with max_depth = 0 the start request is the
\* only one ever issued, no child is enqueued, and the run returns at most one
\* page: the page of the start request when it was extracted, none otherwise.
C3_DepthBound ==
    /\ \A r \in pending : r.depth <= max_depth
    /\ last.depth <= max_depth
    /\ last.enqueued # {} =>
          /\ last.depth < max_depth
          /\ \A r \in pending : r.url \in last.enqueued => r.depth = last.depth + 1
    /\ max_depth = 0 =>
          /\ \A u \in RequestableURLs :
                issued[u] = IF u = _normalize_url(start_urls[1]) THEN 1 ELSE 0
          /\ last.enqueued = {}
          /\ Len(collected_items) <= 1
          /\ Len(collected_items) = 1 <=> (last.kind = "parse" /\ last.outcome = "item")

\* C3 witness: with max_depth = 0 the start page was extracted, it had
\* anchors, and the run ended with that one page and nothing enqueued.
C3_Witness ==
    /\ max_depth = 0 /\ RunEnded
    /\ last.outcome = "item" /\ last.had_links
    /\ Len(collected_items) = 1

\* the skip reasons that match a response
MatchingReasons(c) ==
    (IF c.status = 404 THEN {"Error 404 - Not Found"} ELSE {})
    \cup (IF c.status \in RedirectStatuses THEN {"HTTP Header Redirect"} ELSE {})
    \cup (IF c.noindex THEN {"Robots meta tag contains noindex instruction"} ELSE {})
    \cup (IF c.text = "UnicodeDecodeError"
          THEN {"The character set of this page was not recognized."} ELSE {})

\* C4: a response that is a 404, a 3xx redirect, carries noindex or has an
\* undecodable character set is recorded as skipped with a matching reason,
\* gives no PageRecord and none of its links is enqueued.
C4_SkipConditionsAreSkipped ==
    (last.kind = "parse" /\ MatchingReasons(last) # {}) =>
        /\ \E i \in DOMAIN skipped_pages :
              /\ skipped_pages[i].url = last.url
              /\ skipped_pages[i].skip_reason \in MatchingReasons(last)
        /\ last.url \notin ItemURLs
        /\ last.enqueued = {}

\* C5: every fetched URL ends with exactly one of a PageRecord and a
\* SkippedPageRecord, and an error raised while the page is processed gives
\* a SkippedPageRecord.
C5_OneOutcomePerFetch ==
    last.kind = "parse" =>
        /\ (last.url \in ItemURLs) # (last.url \in SkippedURLs)
        /\ last.outcome = "raised" => last.url \in SkippedURLs

RequestErrorReasons ==
    {"Error 404 - Not Found", "Request Timeout", "Connection Error"}
    \cup {"Error: " \o f.error : f \in Failures}

\* C6: a URL whose fetch fails for good, the start URL included, has a
\* SkippedPageRecord with a request-error reason.
C6_FailedFetchIsSkipped ==
    last.kind \in {"errback", "failure"} =>
        \E i \in DOMAIN skipped_pages :
            /\ skipped_pages[i].url = last.url
            /\ skipped_pages[i].skip_reason \in RequestErrorReasons

(***************************************************************************)
(* The item pipelines and the duplicate content analyzer (SpecDup).        *)
(*                                                                         *)
(* A text is a sequence of tokens.  The text the spider extracts holds     *)
(* words and runs of whitespace; a normalized text holds words only and    *)
(* stands for the string of these words joined by single spaces, so        *)
(* text.split() is the sequence itself.  A similarity is a fraction        *)
(* [num, den]; a score is a whole number of hundredths of a percent        *)
(* (10000 is 100.0).  Arithmetic is exact where Python computes in binary  *)
(* floating point.                                                         *)
(***************************************************************************)
Whitespace == {" ", "  "}
IsWord(token) == token \notin Whitespace

\* str.lower() on the tokens of the model
lower(token) ==
    CASE token = "The" -> "the"
      [] token = "Delta" -> "delta"
      [] token = "LAMBDA" -> "lambda"
      [] OTHER -> token

\* ContentProcessingPipeline._normalize_text: lower case, runs of whitespace
\* collapsed to one space, leading and trailing whitespace stripped
_normalize_text(text) ==
    IF text = <<>> THEN <<>>
    ELSE SelectSeq([i \in 1..Len(text) |-> lower(text[i])], IsWord)

\* hashlib.sha256(...).hexdigest(): equal exactly for equal texts
sha256(text) == <<"sha256", text>>

\* duplicate_content_analyzer.STOPWORDS
STOPWORDS ==
    {
     "a", "above", "add", "after", "again", "air", "almost", "along", "also",
     "always", "america", "an", "and", "animal", "another", "answer", "any",
     "are", "around", "as", "ask", "at", "away", "back", "be", "because",
     "been", "before", "began", "begin", "below", "between", "big", "book",
     "both", "boy", "but", "by", "call", "came", "car", "carry", "change",
     "children", "city", "close", "come", "country", "cut", "day", "did",
     "different", "does", "don't", "down", "each", "earth", "eat", "end",
     "enough", "even", "every", "example", "eye", "face", "family", "far",
     "father", "feet", "few", "find", "first", "follow", "food", "for",
     "form", "found", "four", "from", "get", "girl", "give", "good", "got",
     "great", "group", "grow", "had", "hand", "hard", "has", "have", "he",
     "head", "hear", "her", "here", "high", "him", "home", "house", "idea",
     "if", "important", "in", "indian", "into", "is", "it", "it's", "its",
     "just", "keep", "kind", "know", "land", "large", "last", "later",
     "learn", "leave", "left", "let", "letter", "life", "light", "like",
     "line", "list", "little", "live", "long", "made", "make", "man", "many",
     "may", "me", "mean", "men", "might", "mile", "miss", "more", "most",
     "mother", "mountain", "move", "much", "must", "name", "near", "need",
     "never", "new", "next", "night", "now", "of", "off", "often", "oil",
     "old", "on", "once", "only", "open", "our", "out", "over", "own",
     "page", "paper", "part", "picture", "place", "plant", "play", "point",
     "put", "read", "really", "right", "river", "run", "said", "same", "saw",
     "say", "school", "sea", "second", "seem", "sentence", "set", "should",
     "show", "side", "sit", "small", "so", "some", "something", "sometimes",
     "song", "soon", "sound", "spell", "start", "state", "still", "stop",
     "story", "study", "such", "take", "talk", "tell", "than", "that", "the",
     "their", "them", "then", "these", "they", "thing", "think", "this",
     "those", "thought", "three", "through", "time", "to", "together", "too",
     "took", "tree", "try", "turn", "two", "under", "until", "up", "us",
     "very", "walk", "want", "was", "watch", "well", "went", "what", "where",
     "which", "while", "white", "who", "why", "will", "with", "without",
     "words", "work", "world", "would", "year", "young"
    }

\* re.sub(r'[^\w\s]', ' ', word).split(): the words left of a word when its
\* punctuation is replaced by spaces
WithoutPunctuation(word) ==
    CASE word = "link." -> <<"link">>
      [] word = "don't" -> <<"don", "t">>
      [] OTHER -> <<word>>

RECURSIVE Flatten(_)
Flatten(seqs) == IF seqs = <<>> THEN <<>> ELSE Head(seqs) \o Flatten(Tail(seqs))

\* line 273: w not in STOPWORDS and len(w) > 2
KeptWord(w) == w \notin STOPWORDS /\ Len(w) > 2

\* DuplicateContentAnalyzer.normalize_text with remove_stopwords=True
normalize_text(text) ==
    IF text = <<>> THEN <<>>
    ELSE LET lowered == [i \in 1..Len(text) |-> lower(text[i])]
             words == Flatten([i \in 1..Len(lowered) |-> WithoutPunctuation(lowered[i])])
         IN  SelectSeq(words, KeptWord)

\* DuplicateContentAnalyzer.create_shingles; a shingle is the sequence of its
\* words
create_shingles(text) ==
    IF text = <<>> THEN {}
    ELSE IF Len(text) < shingle_size THEN {text}
    ELSE {SubSeq(text, i, i + shingle_size - 1) : i \in 1..(Len(text) - shingle_size + 1)}

(***************************************************************************)
(* MinHashLSH.  Hash values are below 2**31, and TLC's integers have 32    *)
(* bits, so products are taken in pieces that stay below 2**31.            *)
(***************************************************************************)
\* 2**31 - 1, the starting value of every slot (lines 124 and 128)
MaxHash == 2147483647

\* MinHashLSH.hash_funcs: the pairs (a, b) that lines 94-99 draw after
\* random.seed(42)
hash_funcs ==
    <<
      <<1373158607, 478163327>>, <<53710185, 1181241943>>,
      <<525901257, 958682846>>, <<299655413, 440213415>>,
      <<1453201079, 373399426>>, <<1268073013, 1812140441>>,
      <<68252794, 127978094>>, <<201209006, 939042955>>,
      <<499635469, 113971123>>, <<1205264596, 854001193>>,
      <<1537640409, 1801823908>>, <<473392625, 1929338154>>,
      <<1265438423, 1194819984>>, <<1738238662, 27911967>>,
      <<1629526406, 685731524>>, <<1499242942, 1815115025>>,
      <<730682428, 1193448329>>, <<333889689, 924765563>>,
      <<2055599410, 1445662585>>, <<219494903, 398340369>>,
      <<815887679, 415393687>>, <<770902344, 1477278577>>,
      <<1296491778, 1136108454>>, <<1733294784, 186618211>>,
      <<1567087081, 1973214822>>, <<1151541059, 536124280>>,
      <<2089750183, 1625792787>>, <<169222133, 1259191105>>,
      <<1781132954, 1553210608>>, <<1239854304, 825873196>>,
      <<1513056505, 298737106>>, <<98407117, 978815630>>,
      <<1660151622, 1242911821>>, <<2115747111, 342703921>>,
      <<1836780820, 999829240>>, <<1860759514, 433797840>>,
      <<816314860, 1193887545>>, <<973691210, 1566942273>>,
      <<349297013, 1589915144>>, <<762938026, 899825838>>,
      <<1439190227, 1146660997>>, <<1507147648, 306671447>>,
      <<1308098874, 735034881>>, <<1147056644, 1051454923>>,
      <<350904184, 1985392498>>, <<814874364, 1159417075>>,
      <<2124985204, 943239974>>, <<1470197912, 1392783743>>,
      <<1810010707, 240251661>>, <<491876989, 137869475>>,
      <<1728822696, 1354860540>>, <<861494830, 1149938334>>,
      <<142138945, 906164396>>, <<1960944881, 1351531223>>,
      <<456612024, 2144181937>>, <<849613033, 1970753705>>,
      <<306814402, 1137651678>>, <<299853839, 1059257080>>,
      <<1599851661, 1128466620>>, <<1604199940, 1840109255>>,
      <<1928059963, 1715412119>>, <<777381452, 941975480>>,
      <<2141740787, 594130308>>, <<1094199381, 2119634399>>,
      <<195226477, 202363285>>, <<1849204428, 470939445>>,
      <<328224240, 687117441>>, <<1700977479, 1813163240>>,
      <<1280778651, 272849424>>, <<826281507, 1639042338>>,
      <<1279660645, 2010258946>>, <<1136264405, 1079815404>>,
      <<2085374941, 49310608>>, <<1460897492, 491995979>>,
      <<1463961868, 1146005448>>, <<1650553202, 1461042543>>,
      <<239556469, 1260573448>>, <<933651278, 679282378>>,
      <<974364242, 13938521>>, <<2048304103, 1131247330>>,
      <<2087113798, 767303988>>, <<1090238095, 457031004>>,
      <<1869424396, 1281810600>>, <<1807471164, 854316681>>,
      <<328219839, 1605947756>>, <<1637479473, 693847829>>,
      <<1158307634, 2456273>>, <<1286223707, 1392239675>>,
      <<1049272771, 83651970>>, <<240234110, 1558990517>>,
      <<1887040857, 1320763135>>, <<514219932, 248786714>>,
      <<517267797, 338258951>>, <<183939381, 2087313121>>,
      <<1752396593, 297265480>>, <<2100205697, 540137296>>,
      <<275718575, 2041322270>>, <<2033342055, 709214891>>,
      <<569204770, 1817363615>>, <<2070953569, 909666337>>,
      <<1994826544, 863937247>>, <<1531046260, 1338811290>>,
      <<856829438, 1603828849>>, <<940812753, 1939118223>>,
      <<259854540, 1064746525>>, <<482533864, 274989148>>,
      <<726033230, 90341465>>, <<1263383346, 988335251>>,
      <<1263665530, 945826486>>, <<15442220, 304912982>>,
      <<1520076856, 252860896>>, <<491648747, 289482182>>,
      <<1944374676, 134917627>>, <<1846052961, 1419179580>>,
      <<152165002, 1022222125>>, <<598025374, 2084839399>>,
      <<460070046, 568275055>>, <<1553387798, 2030106617>>,
      <<521832597, 2031403296>>, <<1734086607, 1748309234>>,
      <<408902192, 405126228>>, <<208157334, 1851350739>>,
      <<760848240, 1819256337>>, <<882835423, 2005855667>>,
      <<1855075287, 232663462>>, <<1446039346, 422701550>>,
      <<130164728, 1729245242>>, <<1563826774, 1457293575>>
    >>

\* int(hashlib.md5(shingle.encode('utf-8')).hexdigest(), 16) modulo 2**31, for
\* the shingles of the texts of the model
md5(s) ==
    CASE s = <<"delta", "lambda", "site", "text", "hash">> -> 1075792953
      [] s = <<"lambda", "site", "text", "hash", "crawl">> -> 877519632
      [] s = <<"omega", "zeta", "kappa">> -> 547296579
      [] s = <<"site", "text", "hash", "crawl", "link">> -> 1422406468
      [] s = <<"text", "hash", "crawl", "link", "news">> -> 1978244000
      [] s = <<"text", "hash", "crawl", "link", "node">> -> 1822907562

\* (x + y) % 2**31 for x, y in 0..2**31-1
AddMod(x, y) == IF x > MaxHash - y THEN (x - (MaxHash - y)) - 1 ELSE x + y

\* (a * h) % 2**31 for a, h in 0..2**31-1
MulMod(a, h) ==
    LET ah == a \div (2^16)
        al == a % (2^16)
        hh == h \div (2^16)
        hl == h % (2^16)
        p  == al \div (2^8)
        q  == al % (2^8)
        mid == ((((ah * hl) % (2^15)) + ((al * hh) % (2^15))) % (2^15)) * (2^16)
        low == AddMod(((p * hl) % (2^23)) * (2^8), q * hl)
    IN  AddMod(mid, low)

\* MinHashLSH._hash_shingle: (a * shingle_hash + b) % (2**31)
_hash_shingle(shingle, hash_func) ==
    AddMod(MulMod(hash_func[1], md5(shingle)), hash_func[2])

Min(S) == CHOOSE x \in S : \A y \in S : x <= y

\* MinHashLSH.compute_minhash
compute_minhash(shingles) ==
    IF shingles = {} THEN [i \in 1..num_perm |-> MaxHash]
    ELSE [i \in 1..num_perm |->
            Min({MaxHash} \cup {_hash_shingle(shingle, hash_funcs[i]) : shingle \in shingles})]

\* d[key] = value on a dict
Put(d, key, value) == [k \in DOMAIN d \cup {key} |-> IF k = key THEN value ELSE d[k]]
\* d.get(key, default)
Get(d, key, default) == IF key \in DOMAIN d THEN d[key] ELSE default
Range(list) == {list[i] : i \in DOMAIN list}

\* lines 145-150 and 173-178: the bands a signature is long enough for
BandIds(signature) ==
    {band_id \in 0..(num_bands - 1) :
        band_id * rows_per_band + rows_per_band <= Len(signature)}

\* lines 153-154 and 180-181: tuple(signature[start_idx:end_idx]); the band
\* hash is taken to be equal exactly for equal tuples
BandHash(signature, band_id) ==
    SubSeq(signature, band_id * rows_per_band + 1,
                      band_id * rows_per_band + rows_per_band)

\* MinHashLSH.add_document: the buckets after the call
add_document(buckets, doc_id, signature) ==
    [band_id \in DOMAIN buckets |->
        IF band_id \in BandIds(signature)
        THEN LET band_hash == BandHash(signature, band_id)
             IN  Put(buckets[band_id], band_hash,
                     Get(buckets[band_id], band_hash, {}) \cup {doc_id})
        ELSE buckets[band_id]]

\* MinHashLSH.find_candidates without line 188, candidates.discard(doc_id)
find_candidates_with_self(buckets, doc_id, signature) ==
    UNION {Get(buckets[band_id], BandHash(signature, band_id), {}) :
             band_id \in BandIds(signature)}

\* MinHashLSH.find_candidates
find_candidates(buckets, doc_id, signature) ==
    UNION {Get(buckets[band_id], BandHash(signature, band_id), {}) :
             band_id \in BandIds(signature)} \ {doc_id}

Zero == [num |-> 0, den |-> 1]
One == [num |-> 1, den |-> 1]
GreaterOrEqual(x, y) == x.num * y.den >= y.num * x.den
Greater(x, y) == x.num * y.den > y.num * x.den

\* MinHashLSH.estimate_jaccard
estimate_jaccard(sig1, sig2) ==
    IF Len(sig1) # Len(sig2) THEN Zero
    ELSE IF Len(sig1) > 0
         THEN [num |-> Cardinality({i \in 1..Len(sig1) : sig1[i] = sig2[i]}),
               den |-> Len(sig1)]
         ELSE Zero

\* DuplicateContentAnalyzer.calculate_similarity for two URLs that both have a
\* signature and shingles, which is how the pipeline and find_duplicates call
\* it; signatures and shingles are the analyzer's dicts at the call.
\* Line 580: minhash_sim * 0.7 + shingle_jaccard * 0.3.
calculate_similarity(text1, text2, url1, url2, signatures, shingles) ==
    IF text1 = <<>> \/ text2 = <<>> THEN Zero
    ELSE IF text1 = text2 THEN One
    ELSE LET minhash_sim == estimate_jaccard(signatures[url1], signatures[url2])
             shingles1 == shingles[url1]
             shingles2 == shingles[url2]
             intersection == Cardinality(shingles1 \cap shingles2)
             union == Cardinality(shingles1 \cup shingles2)
         IN  [num |-> 7 * minhash_sim.num * union + 3 * intersection * minhash_sim.den,
              den |-> 10 * minhash_sim.den * union]

\* round(): to the nearest whole number of n / d, ties to the even one
RoundHalfEven(n, d) ==
    LET q == n \div d
        r == n % d
    IN  IF 2 * r > d THEN q + 1
        ELSE IF 2 * r < d THEN q
        ELSE IF q % 2 = 0 THEN q ELSE q + 1

\* round(similarity * 100, 2), in hundredths of a percent
Percent(similarity) == RoundHalfEven(similarity.num * 10000, similarity.den)

\* line 199 with the test left out
StoredIncrementally_always(similarity) == TRUE

\* line 199: if similarity >= 0.40
StoredIncrementally(similarity) == GreaterOrEqual(similarity, [num |-> 40, den |-> 100])

\* lines 214 and 227: if similarity > 0.4
StoredByFallback(similarity) == Greater(similarity, [num |-> 4, den |-> 10])

\* line 697: if similarity >= self.min_similarity
StoredByFinalPass(similarity) == GreaterOrEqual(similarity, min_similarity)

\* len() of the string a normalized text stands for
StringLength(text) ==
    LET RECURSIVE Letters(_)
        Letters(words) == IF words = <<>> THEN 0 ELSE Len(Head(words)) + Letters(Tail(words))
    IN  IF text = <<>> THEN 0 ELSE Letters(text) + Len(text) - 1

\* the sum of the sizes of SequenceMatcher(None, text1, text2)'s matching
\* blocks, as difflib computes it on the strings of the model
MatchingCharacters(text1, text2) ==
    IF text1 = text2 THEN StringLength(text1) ELSE
    CASE text1 = <<"delta", "lambda", "site", "text", "hash", "crawl">>
         /\ text2 = <<"delta", "lambda", "site", "text", "hash", "crawl", "link">> -> 33
      [] text1 = <<"delta", "lambda", "site", "text", "hash", "crawl">>
         /\ text2 = <<"delta", "lambda", "site", "text", "hash", "crawl", "link", "news">> -> 33
      [] text1 = <<"delta", "lambda", "site", "text", "hash", "crawl">>
         /\ text2 = <<"delta", "lambda", "site", "text", "hash", "crawl", "link.">> -> 33
      [] text1 = <<"delta", "lambda", "site", "text", "hash", "crawl">>
         /\ text2 = <<"lambda", "site", "text", "hash", "crawl", "link", "node">> -> 27
      [] text1 = <<"delta", "lambda", "site", "text", "hash", "crawl">>
         /\ text2 = <<"omega", "zeta", "kappa">> -> 6
      [] text1 = <<"delta", "lambda", "site", "text", "hash", "crawl">>
         /\ text2 = <<"the", "delta", "lambda", "site", "text", "hash", "crawl", "link">> -> 33
      [] text1 = <<"delta", "lambda", "site", "text", "hash", "crawl", "link.">>
         /\ text2 = <<"delta", "lambda", "site", "text", "hash", "crawl">> -> 33
      [] text1 = <<"delta", "lambda", "site", "text", "hash", "crawl", "link.">>
         /\ text2 = <<"delta", "lambda", "site", "text", "hash", "crawl", "link">> -> 38
      [] text1 = <<"delta", "lambda", "site", "text", "hash", "crawl", "link.">>
         /\ text2 = <<"delta", "lambda", "site", "text", "hash", "crawl", "link", "news">> -> 38
      [] text1 = <<"delta", "lambda", "site", "text", "hash", "crawl", "link.">>
         /\ text2 = <<"lambda", "site", "text", "hash", "crawl", "link", "node">> -> 32
      [] text1 = <<"delta", "lambda", "site", "text", "hash", "crawl", "link.">>
         /\ text2 = <<"omega", "zeta", "kappa">> -> 6
      [] text1 = <<"delta", "lambda", "site", "text", "hash", "crawl", "link.">>
         /\ text2 = <<"the", "delta", "lambda", "site", "text", "hash", "crawl", "link">> -> 38
      [] text1 = <<"lambda", "site", "text", "hash", "crawl", "link", "node">>
         /\ text2 = <<"delta", "lambda", "site", "text", "hash", "crawl">> -> 27
      [] text1 = <<"lambda", "site", "text", "hash", "crawl", "link", "node">>
         /\ text2 = <<"delta", "lambda", "site", "text", "hash", "crawl", "link">> -> 32
      [] text1 = <<"lambda", "site", "text", "hash", "crawl", "link", "node">>
         /\ text2 = <<"delta", "lambda", "site", "text", "hash", "crawl", "link", "news">> -> 35
      [] text1 = <<"lambda", "site", "text", "hash", "crawl", "link", "node">>
         /\ text2 = <<"delta", "lambda", "site", "text", "hash", "crawl", "link.">> -> 32
      [] text1 = <<"lambda", "site", "text", "hash", "crawl", "link", "node">>
         /\ text2 = <<"omega", "zeta", "kappa">> -> 7
      [] text1 = <<"lambda", "site", "text", "hash", "crawl", "link", "node">>
         /\ text2 = <<"the", "delta", "lambda", "site", "text", "hash", "crawl", "link">> -> 32
      [] text1 = <<"omega", "zeta", "kappa">>
         /\ text2 = <<"delta", "lambda", "site", "text", "hash", "crawl">> -> 6
      [] text1 = <<"omega", "zeta", "kappa">>
         /\ text2 = <<"delta", "lambda", "site", "text", "hash", "crawl", "link">> -> 5
      [] text1 = <<"omega", "zeta", "kappa">>
         /\ text2 = <<"delta", "lambda", "site", "text", "hash", "crawl", "link", "news">> -> 5
      [] text1 = <<"omega", "zeta", "kappa">>
         /\ text2 = <<"delta", "lambda", "site", "text", "hash", "crawl", "link.">> -> 5
      [] text1 = <<"omega", "zeta", "kappa">>
         /\ text2 = <<"lambda", "site", "text", "hash", "crawl", "link", "node">> -> 8
      [] text1 = <<"omega", "zeta", "kappa">>
         /\ text2 = <<"the", "delta", "lambda", "site", "text", "hash", "crawl", "link">> -> 7
      [] text1 = <<"the", "delta", "lambda", "site", "text", "hash", "crawl", "link">>
         /\ text2 = <<"delta", "lambda", "site", "text", "hash", "crawl">> -> 33
      [] text1 = <<"the", "delta", "lambda", "site", "text", "hash", "crawl", "link">>
         /\ text2 = <<"delta", "lambda", "site", "text", "hash", "crawl", "link">> -> 38
      [] text1 = <<"the", "delta", "lambda", "site", "text", "hash", "crawl", "link">>
         /\ text2 = <<"delta", "lambda", "site", "text", "hash", "crawl", "link", "news">> -> 38
      [] text1 = <<"the", "delta", "lambda", "site", "text", "hash", "crawl", "link">>
         /\ text2 = <<"delta", "lambda", "site", "text", "hash", "crawl", "link.">> -> 38
      [] text1 = <<"the", "delta", "lambda", "site", "text", "hash", "crawl", "link">>
         /\ text2 = <<"lambda", "site", "text", "hash", "crawl", "link", "node">> -> 32
      [] text1 = <<"the", "delta", "lambda", "site", "text", "hash", "crawl", "link">>
         /\ text2 = <<"omega", "zeta", "kappa">> -> 8

\* DuplicateDetectionPipeline._calculate_similarity: SequenceMatcher.ratio(),
\* which is 2.0 * matches / (len(text1) + len(text2))
_calculate_similarity(text1, text2) ==
    IF text1 = <<>> \/ text2 = <<>> THEN Zero
    ELSE [num |-> 2 * MatchingCharacters(text1, text2),
          den |-> StringLength(text1) + StringLength(text2)]

(***************************************************************************)
(* The pages of the model: the text the spider extracted and what the      *)
(* analyzer finds in the page's HTML.                                      *)
(***************************************************************************)
\* html_content: visible is the text extract_visible_text takes from the
\* markup itself, tags and categories are what extract_tags_and_categories
\* returns, ld_json is "empty" for a page with an empty
\* <script type="application/ld+json"> element
Html(visible, tags, ld_json) ==
    [visible |-> visible, tags |-> tags, categories |-> <<>>, ld_json |-> ld_json]

TextP1 == <<"The", " ", "Delta", " ", "lambda", "  ", "site", " ", "text", " ",
            "hash", " ", "crawl", " ", "link">>
TextP1b == <<"the", " ", "delta", " ", "LAMBDA", " ", "site", " ", "text", "  ",
             "hash", " ", "crawl", " ", "link">>
TextP1c == <<"delta", " ", "lambda", " ", "site", " ", "text", " ", "hash", " ",
             "crawl", " ", "link.">>
TextP2 == <<"lambda", " ", "site", " ", "text", " ", "hash", " ", "crawl", " ",
            "link", " ", "node">>
TextP3 == <<"delta", " ", "lambda", " ", "site", " ", "text", " ", "hash", " ",
            "crawl">>
TextP4 == <<"omega", " ", "zeta", " ", "kappa">>

Pages ==
    { [text_content |-> TextP1,  html_content |-> Html(TextP1, <<>>, "none")],
      [text_content |-> TextP1b, html_content |-> Html(TextP1b, <<>>, "none")],
      [text_content |-> TextP1c, html_content |-> Html(TextP1c, <<>>, "none")],
      [text_content |-> TextP2,  html_content |-> Html(TextP2, <<>>, "none")],
      [text_content |-> TextP3,  html_content |-> Html(TextP3, <<>>, "none")],
      [text_content |-> TextP4,  html_content |-> Html(TextP4, <<>>, "none")],
      [text_content |-> TextP1,  html_content |-> Html(TextP1, <<"news">>, "none")],
      [text_content |-> TextP1,  html_content |-> Html(TextP1, <<>>, "empty")],
      [text_content |-> <<>>,    html_content |-> Html(<<>>, <<>>, "none")] }

\* the URL of the i-th item; the spider yields one item per URL
Digit == <<"1", "2", "3", "4", "5", "6", "7", "8", "9">>
PageURL(i) == _normalize_url(Url(<<"e", "x">>, <<"/", "p", Digit[i]>>, <<>>))

(***************************************************************************)
(* ContentProcessingPipeline                                               *)
(***************************************************************************)
\* ContentProcessingPipeline.process_item: the item after the call
ContentProcessingPipeline_process_item(item) ==
    LET normalized_text == _normalize_text(item.text_content)
    IN  [url |-> item.url,
         html_content |-> item.html_content,
         text_content |-> normalized_text,
         word_count |-> Len(normalized_text),
         content_hash |-> sha256(normalized_text)]

(***************************************************************************)
(* DuplicateContentAnalyzer.process_page                                   *)
(***************************************************************************)
\* extract_tags_and_categories raises: json.loads(script.string) at line 354
\* gets None for an empty script element, and TypeError is not among the
\* exceptions line 394 catches
ExtractTagsRaises(html_content) == html_content.ld_json = "empty"

\* DuplicateContentAnalyzer.extract_visible_text without text_content
extract_visible_text(html_content) ==
    html_content.visible \o html_content.tags \o html_content.categories

\* lines 505-518 of process_page: the normalized text of the page; every
\* page of the model has HTML
NormalizedPageText(text_content, html_content) ==
    normalize_text(IF text_content = <<>>
                   THEN extract_visible_text(html_content)
                   ELSE text_content \o html_content.tags \o html_content.categories)

\* a dict in insertion order, kept as a list of <<key, value>>
Keys(d) == [i \in 1..Len(d) |-> d[i][1]]
Lookup(d, key, default) ==
    IF \E i \in 1..Len(d) : d[i][1] = key
    THEN d[CHOOSE i \in 1..Len(d) : d[i][1] = key][2]
    ELSE default

Max(x, y) == IF x >= y THEN x ELSE y
Without(list, url) == SelectSeq(list, LAMBDA u : u # url)

(***************************************************************************)
(* DuplicateDetectionPipeline                                              *)
(***************************************************************************)
\* what process_item leaves in processed_items (and, as dict(item), in
\* _collected_items: a copy that shares the similarity_scores dict, so the
\* scores close_spider adds show in the stored record too)
StoredItem(item, duplicate_urls, similarity_scores) ==
    [url |-> item.url,
     text_content |-> item.text_content,
     word_count |-> item.word_count,
     content_hash |-> item.content_hash,
     is_duplicate |-> Len(duplicate_urls) > 0,
     duplicate_urls |-> duplicate_urls,
     similarity_scores |-> similarity_scores]

\* lines 207-217 and 220-230: the scores of the basic method, against the
\* items processed before; contents is url_to_content after line 152
FallbackScores(text_content, contents) ==
    LET others == {processed_items[i].url : i \in DOMAIN processed_items}
        other_content(other_url) == Get(contents, other_url, <<>>)
        similarity(other_url) == _calculate_similarity(text_content, other_content(other_url))
    IN  [other_url \in {o \in others : /\ other_content(o) # <<>>
                                       /\ text_content # <<>>
                                       /\ StoredByFallback(similarity(o))}
            |-> Percent(similarity(other_url))]

\* lines 179-204: the scores of the MinHash method, after process_page has
\* registered the page; text1 is normalized_with_tags
IncrementalScores(url, text1, signature, texts, contents, signatures, shingles, buckets) ==
    IF signature = <<>> THEN <<>>
    ELSE LET candidates == find_candidates(buckets, url, signature)
             text2(candidate_url) ==
                 IF Lookup(texts, candidate_url, <<>>) # <<>>
                 THEN Lookup(texts, candidate_url, <<>>)
                 ELSE Get(contents, candidate_url, <<>>)
             similarity(candidate_url) ==
                 calculate_similarity(text1, text2(candidate_url),
                                      url, candidate_url, signatures, shingles)
         IN  [candidate_url \in {c \in candidates : /\ text2(c) # <<>>
                                                    /\ StoredIncrementally(similarity(c))}
                |-> Percent(similarity(candidate_url))]

\* DuplicateDetectionPipeline.process_item, with the call of
\* DuplicateContentAnalyzer.process_page (lines 517-539) in it
DuplicateDetectionPipeline_process_item(item) ==
    LET url == item.url
        content_hash == item.content_hash
        text_content == item.text_content
        html_content == item.html_content
        contents == Put(url_to_content, url, text_content)
        hashes == Put(hash_to_urls, content_hash,
                      Append(Get(hash_to_urls, content_hash, <<>>), url))
        duplicate_urls == Without(hashes[content_hash], url)
    IN  /\ hash_to_urls' = hashes
        /\ IF advanced_analyzer /\ ~ExtractTagsRaises(html_content)
           THEN \E normalized \in {NormalizedPageText(text_content, html_content)} :
                \E shingle_set \in {create_shingles(normalized)} :
                \E signature \in {compute_minhash(shingle_set)} :
                \E buckets \in {add_document(lsh_buckets, url, signature)} :
                  LET texts == Append(url_to_normalized_text, <<url, normalized>>)
                      signatures == Put(url_to_signature, url, signature)
                      shingles == Put(url_to_shingles, url, shingle_set)
                      normalized_hash == sha256(normalized)
                  IN  /\ url_to_normalized_text' = texts
                      /\ url_to_hash' = Put(url_to_hash, url, normalized_hash)
                      /\ analyzer_hash_to_urls' =
                            Put(analyzer_hash_to_urls, normalized_hash,
                                Append(Get(analyzer_hash_to_urls, normalized_hash, <<>>), url))
                      /\ url_to_shingles' = shingles
                      /\ url_to_signature' = signatures
                      /\ lsh_buckets' = buckets
                      /\ url_to_content' = Put(contents, url, normalized)
                      /\ processed_items' = Append(processed_items,
                            StoredItem(item, duplicate_urls,
                                IncrementalScores(url, normalized, signature, texts,
                                    Put(contents, url, normalized), signatures,
                                    shingles, buckets)))
           ELSE /\ url_to_content' = contents
                /\ processed_items' = Append(processed_items,
                      StoredItem(item, duplicate_urls,
                                 FallbackScores(text_content, contents)))
                /\ UNCHANGED analyzer_vars

\* one item through ITEM_PIPELINES: ContentProcessingPipeline,
\* DuplicateDetectionPipeline, ItemStoragePipeline
ProcessItem(page) ==
    /\ ~spider_closed
    /\ Len(processed_items) < MaxPages
    /\ LET item == ContentProcessingPipeline_process_item(
                       [url |-> PageURL(Len(processed_items) + 1),
                        text_content |-> page.text_content,
                        html_content |-> page.html_content])
       IN  /\ DuplicateDetectionPipeline_process_item(item)
           /\ collected_items' = Append(collected_items,
                                        [url |-> item.url, status_code |-> 200])
    /\ UNCHANGED <<start_urls, allowed_domains, max_depth, visited_urls,
                   discovered_urls, skipped_pages, pending, dupefilter, issued, last>>
    /\ UNCHANGED <<advanced_analyzer, spider_closed, url_vars, site, power_vars, run_vars, lsh_call, power_call>>

(***************************************************************************)
(* DuplicateContentAnalyzer.find_duplicates (use_minhash) and              *)
(* DuplicateDetectionPipeline.close_spider                                 *)
(***************************************************************************)
\* lines 643-649: url -> the other URLs with its hash, where there are any
exact_duplicates ==
    LET duplicates(url) == Without(analyzer_hash_to_urls[url_to_hash[url]], url)
    IN  [url \in {u \in Range(Keys(url_to_normalized_text)) :
                     /\ u \in DOMAIN url_to_hash
                     /\ Len(analyzer_hash_to_urls[url_to_hash[u]]) > 1
                     /\ duplicates(u) # <<>>}
            |-> duplicates(url)]

\* round(similarity, 4), in ten-thousandths
Rounded4(similarity) == RoundHalfEven(similarity.num * 10000, similarity.den)

\* lines 655-702: the loop over the URLs from the i-th on; a match is a record
\* of a URL and a similarity in ten-thousandths, compared_pairs holds
\* unordered pairs
RECURSIVE find_duplicates_loop(_, _, _)
find_duplicates_loop(i, compared_pairs, results) ==
    IF i > Len(url_to_normalized_text) THEN results
    ELSE LET url1 == Keys(url_to_normalized_text)[i]
             text1 == Lookup(url_to_normalized_text, url1, <<>>)
             exact == IF url1 \in DOMAIN exact_duplicates
                      THEN Range(exact_duplicates[url1]) ELSE {}
             candidates == IF Get(url_to_signature, url1, <<>>) # <<>>
                           THEN find_candidates(lsh_buckets, url1, url_to_signature[url1])
                           ELSE {}
             fresh == {url2 \in candidates : {url1, url2} \notin compared_pairs}
             text2(url2) == Lookup(url_to_normalized_text, url2, <<>>)
             similarity(url2) == calculate_similarity(text1, text2(url2), url1, url2,
                                                      url_to_signature, url_to_shingles)
             near == {url2 \in fresh : /\ url2 \notin exact
                                       /\ text2(url2) # <<>>
                                       /\ StoredByFinalPass(similarity(url2))}
             matches == {[url |-> dup_url, similarity |-> 10000] : dup_url \in exact}
                        \cup {[url |-> url2, similarity |-> Rounded4(similarity(url2))] :
                                 url2 \in near}
         IN  IF text1 = <<>>
             THEN find_duplicates_loop(i + 1, compared_pairs, Put(results, url1, {}))
             ELSE find_duplicates_loop(i + 1,
                      compared_pairs \cup {{url1, url2} : url2 \in fresh},
                      Put(results, url1, matches))

\* DuplicateContentAnalyzer.find_duplicates: url -> its matches
find_duplicates == find_duplicates_loop(1, {}, <<>>)

\* the merge of lines 280-288 without lines 285-288: the matches of the final
\* pass take the place of the scores the item had
MergedScores_replace(existing_scores, matches) ==
    [match_url \in {m.url : m \in matches} |->
        (CHOOSE m \in matches : m.url = match_url).similarity]

\* lines 280-288: the scores of an item after the merge with its matches;
\* round(match['similarity'] * 100, 2) of a similarity given in
\* ten-thousandths is that number of hundredths of a percent
MergedScores(existing_scores, matches) ==
    LET enhanced_scores == [match_url \in {m.url : m \in matches} |->
            (CHOOSE m \in matches : m.url = match_url).similarity]
    IN  [match_url \in DOMAIN existing_scores \cup DOMAIN enhanced_scores |->
            IF match_url \in DOMAIN enhanced_scores
            THEN Max(Get(existing_scores, match_url, 0), enhanced_scores[match_url])
            ELSE existing_scores[match_url]]

\* DuplicateDetectionPipeline.close_spider
close_spider ==
    /\ ~spider_closed
    /\ spider_closed' = TRUE
    /\ IF advanced_analyzer /\ Len(processed_items) > 0
       THEN \E duplicate_results \in {find_duplicates} :
              processed_items' =
                [i \in DOMAIN processed_items |->
                    LET item == processed_items[i]
                    IN  IF item.url \in DOMAIN duplicate_results
                        THEN [item EXCEPT !.similarity_scores =
                                 MergedScores(@, duplicate_results[item.url])]
                        ELSE item]
       ELSE UNCHANGED processed_items
    /\ UNCHANGED <<advanced_analyzer, hash_to_urls, url_to_content>>
    /\ UNCHANGED <<frontier_vars, analyzer_vars, url_vars, site, power_vars, run_vars, lsh_call, power_call>>

\* The pipelines when the crawl starts.  The import at line 127 fails where
\* the analyzer's own imports are not installed, and advanced_analyzer is
\* None then.  The spider's state is not looked at under SpecDup.
InitDup ==
    /\ start_urls = <<Home>>
    /\ allowed_domains = {Home.netloc}
    /\ max_depth = 0
    /\ visited_urls = {}
    /\ discovered_urls = {}
    /\ skipped_pages = <<>>
    /\ pending = {}
    /\ dupefilter = {}
    /\ collected_items = <<>>
    /\ issued = [u \in RequestableURLs |-> 0]
    /\ last = NoCallback
    /\ advanced_analyzer \in BOOLEAN
    /\ PipelinesInit
    /\ NormalizerIdle

NextDup ==
    \/ \E page \in Pages : ProcessItem(page)
    \/ close_spider

SpecDup == InitDup /\ [][NextDup]_vars

(***************************************************************************)
(* Properties of the pipelines (SpecDup).                                  *)
(***************************************************************************)
\* the PageRecords of the run: what crawl.py reads from _collected_items
PageRecords == processed_items
RecordPairs == {<<a, b>> \in Range(PageRecords) \X Range(PageRecords) : a.url # b.url}

\* C7: at the end of a run two PageRecords with identical normalized text
\* have the same content hash, are both marked duplicate and each lists the
\* other's URL in duplicate_urls.
C7_ExactDuplicateSymmetry ==
    spider_closed =>
        \A pair \in RecordPairs :
            LET a == pair[1]
                b == pair[2]
            IN  a.text_content = b.text_content =>
                    /\ a.content_hash = b.content_hash
                    /\ a.is_duplicate /\ b.is_duplicate
                    /\ b.url \in Range(a.duplicate_urls)
                    /\ a.url \in Range(b.duplicate_urls)

\* C8: at the end of a run, if B's URL is a key of A's similarity_scores then
\* A's URL is a key of B's similarity_scores, with the same value.
C8_SimilaritySymmetry ==
    spider_closed =>
        \A pair \in RecordPairs :
            LET a == pair[1]
                b == pair[2]
            IN  b.url \in DOMAIN a.similarity_scores =>
                    /\ a.url \in DOMAIN b.similarity_scores
                    /\ a.similarity_scores[b.url] = b.similarity_scores[a.url]

\* C9: in every state, no entry of any PageRecord's similarity_scores is
\* below the threshold of 40 percent.
C9_ThresholdExclusion ==
    \A i \in DOMAIN PageRecords :
        \A url \in DOMAIN PageRecords[i].similarity_scores :
            PageRecords[i].similarity_scores[url] >= Percent(min_similarity)

\* C9 witness: after the final pass, two pages that share an LSH bucket and
\* whose similarity is below the threshold have no entry for each other,
\* while another pair of the run has one.
C9_Witness ==
    /\ spider_closed /\ advanced_analyzer
    /\ \E pair \in RecordPairs :
          LET a == pair[1]
              b == pair[2]
              text1 == Lookup(url_to_normalized_text, a.url, <<>>)
              text2 == Lookup(url_to_normalized_text, b.url, <<>>)
          IN  /\ a.url \in DOMAIN url_to_signature /\ b.url \in DOMAIN url_to_signature
              /\ b.url \in find_candidates(lsh_buckets, a.url, url_to_signature[a.url])
              /\ text1 # <<>> /\ text2 # <<>>
              /\ ~GreaterOrEqual(calculate_similarity(text1, text2, a.url, b.url,
                                     url_to_signature, url_to_shingles), min_similarity)
              /\ b.url \notin DOMAIN a.similarity_scores
              /\ a.url \notin DOMAIN b.similarity_scores
    /\ \E i \in DOMAIN PageRecords : PageRecords[i].similarity_scores # <<>>

\* C10: at the end of a run two PageRecords with the same content hash have
\* each other in similarity_scores at 100 percent, and both are marked
\* duplicate.
C10_ExactDuplicatesScoreFull ==
    spider_closed =>
        \A pair \in RecordPairs :
            LET a == pair[1]
                b == pair[2]
            IN  a.content_hash = b.content_hash =>
                    /\ b.url \in DOMAIN a.similarity_scores
                    /\ a.similarity_scores[b.url] = 10000
                    /\ a.is_duplicate /\ b.is_duplicate

\* C11: the final pass of close_spider only refines: every key a PageRecord
\* has in similarity_scores before the pass is still there after it, with a
\* value that is not lower.
C11_FinalPassRefines ==
    [][(~spider_closed /\ spider_closed') =>
          /\ Len(processed_items') = Len(processed_items)
          /\ \A i \in DOMAIN processed_items :
                /\ processed_items'[i].url = processed_items[i].url
                /\ \A key \in DOMAIN processed_items[i].similarity_scores :
                      /\ key \in DOMAIN processed_items'[i].similarity_scores
                      /\ processed_items'[i].similarity_scores[key]
                            >= processed_items[i].similarity_scores[key]]_vars

\* C11 witness: the final pass has run and gave a record a match, while
\* another record holds a score that is not among its matches of the final
\* pass, so it had the score before the pass and kept it.
C11_Witness ==
    /\ spider_closed /\ advanced_analyzer
    /\ \E i \in DOMAIN PageRecords :
          /\ PageRecords[i].url \in DOMAIN find_duplicates
          /\ find_duplicates[PageRecords[i].url] # {}
    /\ \E i \in DOMAIN PageRecords :
          \E key \in DOMAIN PageRecords[i].similarity_scores :
              /\ PageRecords[i].url \in DOMAIN find_duplicates
              /\ key \notin {m.url : m \in find_duplicates[PageRecords[i].url]}

(***************************************************************************)
(* SiteSpider._normalize_url on URL strings (SpecUrl).  A string is the    *)
(* sequence of its characters; urlparse and urlunparse of urllib.parse are *)
(* what _normalize_url calls to take a string apart and to put the         *)
(* normalized components together again.                                   *)
(***************************************************************************)
\* the None _normalize_url returns, where a string is expected
NoURL == <<"None">>

\* how many pieces the path of an input URL has at most
MaxPathPieces == 4

Letters ==
    {"a","b","c","d","e","f","g","h","i","j","k","l","m",
     "n","o","p","q","r","s","t","u","v","w","x","y","z",
     "A","B","C","D","E","F","G","H","I","J","K","L","M",
     "N","O","P","Q","R","S","T","U","V","W","X","Y","Z"}
\* urllib.parse.scheme_chars
scheme_chars == Letters \cup {"0","1","2","3","4","5","6","7","8","9","+","-","."}
\* urllib.parse.uses_netloc, as far as the schemes of the inputs go
uses_netloc == {"ftp", "http", "https"}

\* a scheme, which the components hold as one value, and its characters
SchemeNames ==
    { <<"", <<>> >>, <<"http", <<"h","t","t","p">> >>,
      <<"https", <<"h","t","t","p","s">> >>, <<"ftp", <<"f","t","p">> >> }
SchemeName(chars) ==
    IF \E n \in SchemeNames : n[2] = chars
    THEN (CHOOSE n \in SchemeNames : n[2] = chars)[1]
    ELSE "other"
SchemeChars(name) == (CHOOSE n \in SchemeNames : n[1] = name)[2]

\* str.find: the first position from start on that holds one of chars, or 0
Find(s, chars, start) ==
    IF \E i \in start..Len(s) : s[i] \in chars
    THEN CHOOSE i \in start..Len(s) :
            s[i] \in chars /\ \A j \in start..(i - 1) : s[j] \notin chars
    ELSE 0
\* str.rfind: the last position that holds c, or 0
RFind(s, c) ==
    IF \E i \in 1..Len(s) : s[i] = c
    THEN CHOOSE i \in 1..Len(s) : s[i] = c /\ \A j \in (i + 1)..Len(s) : s[j] # c
    ELSE 0
From(s, i) == SubSeq(s, i, Len(s))
Upto(s, i) == SubSeq(s, 1, i)
StartsWith(s, prefix) == Len(s) >= Len(prefix) /\ Upto(s, Len(prefix)) = prefix

\* urllib.parse.urlparse: urlsplit, then _splitparams on the path
urlparse(s) ==
    LET colon == Find(s, {":"}, 1)
        has_scheme == /\ colon > 1
                      /\ s[1] \in Letters
                      /\ \A i \in 1..(colon - 1) : s[i] \in scheme_chars
        scheme == IF has_scheme THEN Lower(Upto(s, colon - 1)) ELSE <<>>
        rest1 == IF has_scheme THEN From(s, colon + 1) ELSE s
        has_netloc == StartsWith(rest1, <<"/","/">>)
        delim == IF Find(rest1, {"/","?","#"}, 3) = 0
                 THEN Len(rest1) + 1 ELSE Find(rest1, {"/","?","#"}, 3)
        netloc == IF has_netloc THEN SubSeq(rest1, 3, delim - 1) ELSE <<>>
        rest2 == IF has_netloc THEN From(rest1, delim) ELSE rest1
        hash == Find(rest2, {"#"}, 1)
        fragment == IF hash = 0 THEN <<>> ELSE From(rest2, hash + 1)
        rest3 == IF hash = 0 THEN rest2 ELSE Upto(rest2, hash - 1)
        mark == Find(rest3, {"?"}, 1)
        query == IF mark = 0 THEN <<>> ELSE From(rest3, mark + 1)
        rest4 == IF mark = 0 THEN rest3 ELSE Upto(rest3, mark - 1)
        semi == Find(rest4, {";"}, RFind(rest4, "/") + 1)
    IN  [scheme   |-> SchemeName(scheme),
         netloc   |-> netloc,
         path     |-> IF semi = 0 THEN rest4 ELSE Upto(rest4, semi - 1),
         params   |-> IF semi = 0 THEN <<>> ELSE From(rest4, semi + 1),
         query    |-> query,
         fragment |-> fragment]

\* urllib.parse.urlunparse: the path and params joined, then urlunsplit
urlunparse(parts) ==
    LET url0 == IF parts.params # <<>>
                THEN parts.path \o <<";">> \o parts.params ELSE parts.path
        url1 == IF \/ parts.netloc # <<>>
                   \/ /\ parts.scheme \in uses_netloc
                      /\ ~StartsWith(url0, <<"/","/">>)
                THEN <<"/","/">> \o parts.netloc
                        \o (IF url0 # <<>> /\ url0[1] # "/" THEN <<"/">> ELSE <<>>)
                        \o url0
                ELSE url0
        url2 == IF parts.scheme # ""
                THEN SchemeChars(parts.scheme) \o <<":">> \o url1 ELSE url1
        url3 == IF parts.query # <<>> THEN url2 \o <<"?">> \o parts.query ELSE url2
    IN  IF parts.fragment # <<>> THEN url3 \o <<"#">> \o parts.fragment ELSE url3

\* SiteSpider._normalize_url, from string to string
normalize(s) ==
    IF s = NoURL \/ s = <<>> THEN NoURL
    ELSE LET n == _normalize_url(urlparse(s))
         IN  IF n = None THEN NoURL ELSE urlunparse(n)

(***************************************************************************)
(* The URL strings _normalize_url is given under SpecUrl, put together     *)
(* from their parts, and the other spellings of a URL.                     *)
(***************************************************************************)
PathPieces == { <<"/">>, <<"A">>, <<".","j","s">>, <<";","p">> }

RECURSIVE PathsOf(_)
PathsOf(n) ==
    IF n = 0 THEN { <<>> }
    ELSE PathsOf(n - 1) \cup
         { path \o piece : path \in PathsOf(n - 1), piece \in PathPieces }

\* a path is empty or starts with '/'
InputPaths == {path \in PathsOf(MaxPathPieces) : path = <<>> \/ path[1] = "/"}

UrlParts ==
    [scheme : { <<"h","t","t","p","s">>, <<"f","t","p">> },
     netloc : { <<"e","x">> },
     path : InputPaths,
     query : { <<>>, <<"Q","=","1">> },
     fragment : { <<>>, <<"F">> }]

Compose(parts) ==
    parts.scheme \o <<":","/","/">> \o parts.netloc \o parts.path
        \o (IF parts.query # <<>> THEN <<"?">> \o parts.query ELSE <<>>)
        \o (IF parts.fragment # <<>> THEN <<"#">> \o parts.fragment ELSE <<>>)

\* str.upper() on the characters of the schemes and hosts of the inputs
Upper(s) == [i \in 1..Len(s) |->
                IF \E c \in Letters : c # s[i] /\ LowerChar(c) = s[i]
                THEN CHOOSE c \in Letters : c # s[i] /\ LowerChar(c) = s[i]
                ELSE s[i]]

\* the spellings of a URL that differ from it in the letter case of scheme
\* and host, in the fragment and in one trailing '/' of the path
Variants(parts) ==
    { [scheme |-> sc, netloc |-> host, path |-> path,
       query |-> parts.query, fragment |-> fragment] :
        sc \in {parts.scheme, Upper(parts.scheme)},
        host \in {parts.netloc, Upper(parts.netloc)},
        path \in {parts.path, parts.path \o <<"/">>}
                   \cup (IF parts.path # <<>> /\ parts.path[Len(parts.path)] = "/"
                         THEN {Upto(parts.path, Len(parts.path) - 1)} ELSE {}),
        fragment \in {parts.fragment, <<>>, <<"G">>} }

InitUrl ==
    /\ \E parts \in UrlParts : \E other \in Variants(parts) :
          /\ url_string = Compose(parts)
          /\ url_variant = Compose(other)
    /\ url_normalized = NotCalled
    /\ url_renormalized = NotCalled
    /\ variant_normalized = NotCalled
    /\ site = <<>>
    /\ PowerIdle
    /\ start_urls = <<Home>>
    /\ allowed_domains = {Home.netloc}
    /\ max_depth = 0
    /\ visited_urls = {}
    /\ discovered_urls = {}
    /\ skipped_pages = <<>>
    /\ pending = {}
    /\ dupefilter = {}
    /\ collected_items = <<>>
    /\ issued = [u \in RequestableURLs |-> 0]
    /\ last = NoCallback
    /\ advanced_analyzer = TRUE
    /\ PipelinesInit

\* _normalize_url(url_string)
Normalize ==
    /\ url_normalized = NotCalled
    /\ url_normalized' = normalize(url_string)
    /\ UNCHANGED <<url_string, url_renormalized, url_variant, variant_normalized>>
    /\ UNCHANGED <<frontier_vars, pipeline_vars, analyzer_vars, site, power_vars, run_vars, lsh_call, power_call>>

\* _normalize_url on what the first call returned
Renormalize ==
    /\ url_normalized # NotCalled
    /\ url_renormalized = NotCalled
    /\ url_renormalized' = normalize(url_normalized)
    /\ UNCHANGED <<url_string, url_normalized, url_variant, variant_normalized>>
    /\ UNCHANGED <<frontier_vars, pipeline_vars, analyzer_vars, site, power_vars, run_vars, lsh_call, power_call>>

\* _normalize_url(url_variant)
NormalizeVariant ==
    /\ url_normalized # NotCalled
    /\ variant_normalized = NotCalled
    /\ variant_normalized' = normalize(url_variant)
    /\ UNCHANGED <<url_string, url_normalized, url_renormalized, url_variant>>
    /\ UNCHANGED <<frontier_vars, pipeline_vars, analyzer_vars, site, power_vars, run_vars, lsh_call, power_call>>

NextUrl ==
    \/ Normalize
    \/ Renormalize
    \/ NormalizeVariant

SpecUrl == InitUrl /\ [][NextUrl]_vars

(***************************************************************************)
(* Properties of _normalize_url (SpecUrl).                                 *)
(***************************************************************************)
\* C12: normalizing is idempotent: where _normalize_url(u) is a string,
\* _normalize_url of that string is the same string.
C12_NormalizeIdempotent ==
    (url_normalized \notin {NotCalled, NoURL} /\ url_renormalized # NotCalled)
        => url_renormalized = url_normalized

\* C13: two URLs that differ only in the letter case of scheme and host, in
\* the fragment and in one trailing '/' of the path normalize to the same
\* string, and the path (but for trailing slashes) and the query keep their
\* spelling.
PreservedPathAndQuery ==
    LET before == urlparse(url_string)
        after == urlparse(url_normalized)
    IN  (url_normalized \notin {NotCalled, NoURL} /\ Find(url_string, {";"}, 1) = 0)
            => /\ after.query = before.query
               /\ after.path = RStripSlash(before.path)

C13_NormalizeEquivalent ==
    /\ (url_normalized # NotCalled /\ variant_normalized # NotCalled)
            => variant_normalized = url_normalized
    /\ PreservedPathAndQuery

(***************************************************************************)
(* A crawl of a given site (SpecSite): every fetch succeeds and answers    *)
(* with the page the site has at the URL.                                  *)
(***************************************************************************)
PageC == Url(<<"e","x">>, <<"/","c">>, <<>>)                \* https://ex/c
\* a URL of the site's host that no fetch ever gets an answer from
PageDown == Url(<<"e","x">>, <<"/","d">>, <<>>)             \* https://ex/d

\* how many anchors the pages of a site hold together, at most
MaxSiteLinks == 3

\* the pages of a site, by their normalized URLs
SitePages == {_normalize_url(u) : u \in {Home, PageA, PageB, PageC}}
\* what their anchors point to, as spelled in the href
SiteAnchors == {Home, PageASlash, PageB, PageC, PageDown, External}

AnchorCount(s) ==
    Cardinality({pair \in (DOMAIN s) \X SiteAnchors : pair[2] \in s[pair[1]]})

\* the site shows as the crawl asks for its pages: the body of a page is
\* fixed when a request for it is pending for the first time
Publish(page, links) ==
    /\ page \notin DOMAIN site
    /\ \E req \in pending : _normalize_url(req.url) = page
    /\ Cardinality(links) <= MaxLinks
    /\ AnchorCount(site) + Cardinality(links) <= MaxSiteLinks
    /\ site' = Put(site, page, links)
    /\ UNCHANGED <<frontier_vars, pipeline_vars, analyzer_vars, url_vars, power_vars, run_vars, lsh_call, power_call>>

\* the pages a request is pending for and whose body is not fixed yet
Unpublished ==
    {page \in SitePages \ DOMAIN site :
        \E req \in pending : _normalize_url(req.url) = page}
\* the sets of anchors a body may hold, given the anchors the site has shown
Bodies ==
    {links \in SUBSET SiteAnchors :
        /\ Cardinality(links) <= MaxLinks
        /\ AnchorCount(site) + Cardinality(links) <= MaxSiteLinks}

\* the response to a request: the page the site has at its URL
SiteResponse(req) ==
    [url |-> req.url, status |-> 200,
     location |-> FALSE, noindex |-> FALSE, charset |-> FALSE, text |-> "ok",
     links |-> site[_normalize_url(req.url)]]

\* the server does not answer requests for this URL
Down(req) == _normalize_url(req.url) = _normalize_url(PageDown)

\* the engine downloads a pending request and calls parse with the response
FetchPage(req) ==
    /\ ~Down(req)
    /\ _normalize_url(req.url) \in DOMAIN site
    /\ \E response \in {SiteResponse(req)} : Parse(req, response)

\* settings.RETRY_TIMES
RETRY_TIMES == 2

\* the retry middleware's copy of a request, without the count of the retry
Retried_uncounted(req) == req

\* the retry middleware's copy of a request: meta['retry_times'] counts up
\* (the copy has dont_filter=True, so the duplicate filter lets it pass)
Retried(req) == [req EXCEPT !.retry_times = @ + 1]

\* a download fails and the retry middleware sends the request again
Retry(req) ==
    /\ req \in pending
    /\ Down(req)
    /\ req.retry_times < RETRY_TIMES
    /\ pending' = (pending \ {req}) \cup {Retried(req)}
    /\ UNCHANGED <<start_urls, allowed_domains, max_depth, visited_urls,
                   discovered_urls, skipped_pages, dupefilter, collected_items,
                   issued, last>>
    /\ UNCHANGED <<pipeline_vars, analyzer_vars, url_vars, site, power_vars, run_vars, lsh_call, power_call>>

\* a download fails after RETRY_TIMES retries: the failure goes to the
\* request's errback, if it has one
GiveUp(req, failure) ==
    /\ Down(req)
    /\ req.retry_times = RETRY_TIMES
    /\ DownloadFailed(req, failure)

InitSite ==
    /\ site = <<>>
    /\ PowerIdle
    /\ start_urls \in {<<s>> : s \in StartURLs}
    /\ allowed_domains = {start_urls[1].netloc}
    /\ max_depth \in 0..MaxMaxDepth
    /\ visited_urls = {}
    /\ discovered_urls = {}
    /\ skipped_pages = <<>>
    /\ pending = {Request(start_urls[1], 0, FALSE)}
    /\ dupefilter = {}
    /\ collected_items = <<>>
    /\ issued = [u \in RequestableURLs \cup SitePages \cup {_normalize_url(PageDown)} |->
                    IF u = _normalize_url(start_urls[1]) THEN 1 ELSE 0]
    /\ last = NoCallback
    /\ advanced_analyzer = TRUE
    /\ PipelinesInit
    /\ url_string = <<>>
    /\ url_normalized = NotCalled
    /\ url_renormalized = NotCalled
    /\ url_variant = <<>>
    /\ variant_normalized = NotCalled

NextSite ==
    \/ \E page \in Unpublished : \E links \in Bodies : Publish(page, links)
    \/ \E req \in pending : FetchPage(req)
    \/ \E req \in pending : Retry(req)
    \/ \E req \in pending : \E failure \in Failures : GiveUp(req, failure)

SpecSite == InitSite /\ [][NextSite]_vars

\* the engine keeps going while it has something to do
SpecSiteFair == SpecSite /\ WF_vars(NextSite)

(***************************************************************************)
(* Properties of a crawl of a given site (SpecSite).                       *)
(***************************************************************************)
\* the start URL's host, normalized
StartHost == Lower(start_urls[1].netloc)

\* what _extract_links gave for the page of a PageRecord (lines 269-271)
LinksOf(item) == _extract_links([links |-> site[item.url]])

\* C14: the allowed domain is the start URL's host: in every PageRecord the
\* links to the start URL's host (hosts compared after normalization) are the
\* internal links and the links to other hosts are the external links, and no
\* URL of another host is ever requested.
C14_AllowedDomainIsStartHost ==
    /\ \A i \in DOMAIN collected_items :
          /\ \A link \in LinksOf(collected_items[i]).internal : link.netloc = StartHost
          /\ \A link \in LinksOf(collected_items[i]).external : link.netloc # StartHost
    /\ \A u \in dupefilter : u.netloc = StartHost
    /\ \A req \in pending : Lower(req.url.netloc) = StartHost

\* the linear site: H links to P1 and P2, P1 links to P3
LinearSite ==
    [page \in SitePages |->
        IF page = _normalize_url(Home) THEN {PageASlash, PageB}
        ELSE IF page = _normalize_url(PageA) THEN {PageC}
        ELSE {}]

\* the site is the linear site, as far as it has shown
IsLinear == \A page \in DOMAIN site : site[page] = LinearSite[page]

\* the depths at which the pages of the linear site are to be fetched
LinearDepth(page) ==
    IF page = _normalize_url(Home) THEN 0
    ELSE IF page = _normalize_url(PageC) THEN 2
    ELSE 1

\* C15: on the linear site, started at H, with max_depth 2 the run fetches
\* exactly H, P1, P2 and P3, at depths 0, 1, 1 and 2; with max_depth 1 it
\* never fetches P3 and P3 is not among the pages.
C15_LinearSite ==
    (IsLinear /\ start_urls[1] = Home /\ max_depth \in {1, 2}) =>
        LET reached == {page \in SitePages : LinearDepth(page) <= max_depth}
        IN  /\ last.kind = "parse" =>
                  /\ last.url \in reached
                  /\ last.depth = LinearDepth(last.url)
                  /\ last.outcome = "item"
            /\ \A req \in pending : /\ _normalize_url(req.url) \in reached
                                    /\ req.depth = LinearDepth(_normalize_url(req.url))
            /\ \A page \in DOMAIN issued :
                  issued[page] <= (IF page \in reached THEN 1 ELSE 0)
            /\ ItemURLs \subseteq reached
            /\ RunEnded => /\ ItemURLs = reached
                           /\ Len(collected_items) = Cardinality(reached)
                           /\ skipped_pages = <<>>

\* C15 witness: the crawl of the linear site with max_depth 2 has ended, its
\* last fetch was P3 at depth 2, and all four pages are there.
C15_Witness ==
    /\ site = LinearSite /\ start_urls[1] = Home /\ max_depth = 2
    /\ RunEnded
    /\ last.kind = "parse" /\ last.url = _normalize_url(PageC) /\ last.depth = 2
    /\ ItemURLs = SitePages

\* C16: on a finite site, whatever max_depth is, the pending queue becomes
\* empty and stays empty: the run terminates, and no URL is fetched again and
\* again.
C16_Terminates == <>[](pending = {})

\* C16 witness: the run has ended after a page was fetched at the greatest
\* depth, a request was given up after its retries, and the start URL was
\* requested a second time.
C16_Witness ==
    /\ RunEnded
    /\ \E i \in DOMAIN skipped_pages : skipped_pages[i].url = _normalize_url(PageDown)
    /\ Len(collected_items) >= 2
    /\ max_depth = MaxMaxDepth

(***************************************************************************)
(* PagePowerAnalyzer (src/page_power_analyzer.py).                         *)
(*                                                                         *)
(* The powers are fractions and the model computes them exactly; the code  *)
(* holds the nearest double of each.  With N pages, damping num/den and L  *)
(* the least common multiple of the outbound counts, every power after     *)
(* iteration k is a whole number of units of 1 / (den * N * (den * L)^k):  *)
(* power[url] below is that whole number.  It needs more than 32 bits, so  *)
(* it is written in base BigBase, lowest digit first.                      *)
(***************************************************************************)
BigBase == 10 * 1000
BigDigits == 1..8

\* n, which fits 32 bits, in base BigBase
Big(n) ==
    [i \in BigDigits |->
        IF i = 1 THEN n % BigBase
        ELSE IF i = 2 THEN (n \div BigBase) % BigBase
        ELSE IF i = 3 THEN n \div (BigBase * BigBase)
        ELSE 0]

RECURSIVE Carry(_, _, _)
Carry(a, i, carry) ==
    IF i > Len(a) THEN <<>>
    ELSE LET v == a[i] + carry
         IN  <<v % BigBase>> \o Carry(a, i + 1, v \div BigBase)

\* a + b
BigAdd(a, b) == Carry([i \in BigDigits |-> a[i] + b[i]], 1, 0)

\* a * m, for m below 100000
BigTimes(a, m) == Carry([i \in BigDigits |-> a[i] * m], 1, 0)

RECURSIVE Borrow(_, _, _, _)
Borrow(a, b, i, borrow) ==
    IF i > Len(a) THEN <<>>
    ELSE LET v == a[i] - b[i] - borrow
         IN  IF v < 0 THEN <<v + BigBase>> \o Borrow(a, b, i + 1, 1)
             ELSE <<v>> \o Borrow(a, b, i + 1, 0)

\* a - b, for a >= b
BigMinus(a, b) == Borrow(a, b, 1, 0)

\* a < b
BigLess(a, b) ==
    \E i \in BigDigits :
        /\ a[i] < b[i]
        /\ \A j \in BigDigits : j > i => a[j] = b[j]

\* m^k
RECURSIVE BigPower(_, _)
BigPower(m, k) == IF k = 0 THEN Big(1) ELSE BigTimes(BigPower(m, k - 1), m)

\* the whole part of n / d, known to lie in lo..hi
RECURSIVE BigQuotient(_, _, _, _)
BigQuotient(n, d, lo, hi) ==
    IF lo = hi THEN lo
    ELSE LET mid == (lo + hi + 1) \div 2
         IN  IF BigLess(n, BigTimes(d, mid)) THEN BigQuotient(n, d, lo, mid - 1)
             ELSE BigQuotient(n, d, mid, hi)

\* round(): the whole number nearest to n / d, which is at most 10000, ties to
\* the even one
BigRound(n, d) ==
    LET q == BigQuotient(n, d, 0, 10000)
        twice == BigTimes(BigMinus(n, BigTimes(d, q)), 2)
    IN  IF BigLess(d, twice) THEN q + 1
        ELSE IF BigLess(twice, d) THEN q
        ELSE IF q % 2 = 0 THEN q ELSE q + 1

RECURSIVE Gcd(_, _)
Gcd(a, b) == IF b = 0 THEN a ELSE Gcd(b, a % b)

\* the least common multiple of 1..n
RECURSIVE LcmUpTo(_)
LcmUpTo(n) == IF n <= 1 THEN 1 ELSE (LcmUpTo(n - 1) * n) \div Gcd(LcmUpTo(n - 1), n)

\* line 149
damping_factor == [num |-> 17, den |-> 20]
\* line 150
iterations == 10

\* the outbound counts of a link graph all divide OutLcm
OutLcm == LcmUpTo(MaxLinks)
\* what the units of the powers shrink by in one iteration
UnitStep == damping_factor.den * OutLcm

\* line 81
AllUrls(pgs) == {pgs[i].url : i \in DOMAIN pgs}

\* _build_link_graph, lines 74-111: the links of each page that lead to a
\* page of the list
_build_link_graph(pgs) ==
    [page_url \in AllUrls(pgs) |->
        LET i == CHOOSE i \in DOMAIN pgs :
                    /\ pgs[i].url = page_url
                    /\ \A j \in DOMAIN pgs : pgs[j].url = page_url => j <= i
        IN  pgs[i].internal_links \cap AllUrls(pgs)]

\* lines 136-142: the first URL whose path is '/' or ''
homepage(all_urls) ==
    IF \E i \in DOMAIN all_urls : all_urls[i].path \in {<<>>, <<"/">>}
    THEN LET i == CHOOSE i \in DOMAIN all_urls :
                    /\ all_urls[i].path \in {<<>>, <<"/">>}
                    /\ \A j \in DOMAIN all_urls :
                          all_urls[j].path \in {<<>>, <<"/">>} => i <= j
         IN  all_urls[i]
    ELSE None

\* lines 134-146: power 1.0 for every page and 2.0 for the homepage, in units
\* of 1 / (den * N)
InitialPower(all_urls) ==
    [u \in {all_urls[i] : i \in DOMAIN all_urls} |->
        Big(damping_factor.den * Len(all_urls) * (IF u = homepage(all_urls) THEN 2 ELSE 1))]

\* lines 160-165: what the pages of sources give to a page that they link to
RECURSIVE Contributions(_, _, _)
Contributions(sources, power, graph) ==
    IF sources = {} THEN Big(0)
    ELSE LET source_url == CHOOSE s \in sources : TRUE
             outbound_count == IF Cardinality(graph[source_url]) = 0 THEN 1
                               ELSE Cardinality(graph[source_url])
         IN  BigAdd(BigTimes(power[source_url],
                             damping_factor.num * (OutLcm \div outbound_count)),
                    Contributions(sources \ {source_url}, power, graph))

\* lines 153-167: iteration k + 1.  The power it is given is in units of
\* 1 / (den * N * UnitStep^k), the power it gives in units UnitStep times
\* smaller.
NewPower(power, k, graph) ==
    [u \in DOMAIN power |->
        BigAdd(BigTimes(BigPower(UnitStep, k + 1),
                        damping_factor.den - damping_factor.num),
               Contributions({s \in DOMAIN graph : u \in graph[s] /\ s \in DOMAIN power},
                             power, graph))]

\* lines 152-167: iterations k + 1 to the last one
RECURSIVE Iterate(_, _, _)
Iterate(power, k, graph) ==
    IF k = iterations THEN power
    ELSE Iterate(NewPower(power, k, graph), k + 1, graph)

\* the greatest and the least of the powers
MaxPower(power) ==
    power[CHOOSE u \in DOMAIN power : \A v \in DOMAIN power : ~BigLess(power[u], power[v])]
MinPower(power) ==
    power[CHOOSE u \in DOMAIN power : \A v \in DOMAIN power : ~BigLess(power[v], power[u])]

\* 1.0 in the units of the powers after the last iteration
UnitPower(n) == BigTimes(BigPower(UnitStep, iterations), damping_factor.den * n)

\* line 173 without its else
PowerRange_no_fallback(power, n) == BigMinus(MaxPower(power), MinPower(power))

\* line 173
PowerRange(power, n) ==
    IF BigLess(MinPower(power), MaxPower(power))
    THEN BigMinus(MaxPower(power), MinPower(power))
    ELSE UnitPower(n)

\* lines 175-178: round(((p - min_power) / power_range) * 100, 2), in
\* hundredths
Scores(power, n) ==
    [u \in DOMAIN power |->
        BigRound(BigTimes(BigMinus(power[u], MinPower(power)), 10000),
                 PowerRange(power, n))]

\* the pages of a site in the order of their crawl
SiteOrder == <<_normalize_url(Home), _normalize_url(PageA), _normalize_url(PageB),
               _normalize_url(PageC)>>

\* the page records of the pages of SiteOrder that are in crawled, with the
\* internal links that links gives them
PowerRecords(crawled, links) ==
    LET urls == SelectSeq(SiteOrder, LAMBDA u : u \in crawled)
    IN  [i \in DOMAIN urls |-> [url |-> urls[i], internal_links |-> links[urls[i]]]]

\* how many internal links the pages hold together
LinkCount(l) == Cardinality({pair \in (DOMAIN l) \X SitePages : pair[2] \in l[pair[1]]})

\* the lists of page records analyze_site is given: one to four pages, none
\* with more than MaxLinks internal links and all with MaxSiteLinks together;
\* a link may lead to the page itself and to a page that is not in the list
PageLists ==
    { PowerRecords(DOMAIN links, links) :
        links \in { l \in UNION { [crawled -> SUBSET SitePages] :
                                     crawled \in SUBSET SitePages \ {{}} } :
                      /\ \A u \in DOMAIN l : Cardinality(l[u]) <= MaxLinks
                      /\ LinkCount(l) <= MaxSiteLinks } }

\* the linear site as page records: H -> P1, H -> P2, P1 -> P3
LinearPages ==
    PowerRecords(SitePages,
                [page \in SitePages |-> {_normalize_url(u) : u \in LinearSite[page]}])

InitPower ==
    /\ pages \in PageLists
    /\ RunStarted
    /\ link_graph = <<>>
    /\ outgoing_links = <<>>
    /\ raw_power = <<>>
    /\ page_powers = <<>>
    /\ power_raised = "None"
    /\ url_string = <<>>
    /\ url_normalized = NotCalled
    /\ url_renormalized = NotCalled
    /\ url_variant = <<>>
    /\ variant_normalized = NotCalled
    /\ site = <<>>
    /\ start_urls = <<Home>>
    /\ allowed_domains = {Home.netloc}
    /\ max_depth = 0
    /\ visited_urls = {}
    /\ discovered_urls = {}
    /\ skipped_pages = <<>>
    /\ pending = {}
    /\ dupefilter = {}
    /\ collected_items = <<>>
    /\ issued = [u \in RequestableURLs |-> 0]
    /\ last = NoCallback
    /\ advanced_analyzer = TRUE
    /\ PipelinesInit

\* analyze_site, lines 63-67: the pages are there, the graph is built
BuildLinkGraph ==
    /\ pages # <<>>
    /\ link_graph = <<>>
    /\ link_graph' = _build_link_graph(pages)
    /\ outgoing_links' = [u \in DOMAIN link_graph' |-> Cardinality(link_graph'[u])]
    /\ UNCHANGED <<pages, raw_power, page_powers, power_raised>>
    /\ UNCHANGED <<frontier_vars, pipeline_vars, analyzer_vars, url_vars, site, run_vars, lsh_call, power_call>>

\* analyze_site, lines 70-72: _calculate_page_powers
CalculatePagePowers ==
    /\ link_graph # <<>>
    /\ raw_power = <<>>
    /\ \E all_urls \in {[i \in DOMAIN pages |-> pages[i].url]} :
       \E power \in {Iterate(InitialPower(all_urls), 0, link_graph)} :
          /\ raw_power' = power
          /\ IF PowerRange(power, Len(all_urls)) = Big(0)
             THEN \* the division of line 176 raises
                  /\ power_raised' = "ZeroDivisionError"
                  /\ UNCHANGED page_powers
             ELSE /\ page_powers' = Scores(power, Len(all_urls))
                  /\ UNCHANGED power_raised
    /\ UNCHANGED <<pages, link_graph, outgoing_links>>
    /\ UNCHANGED <<frontier_vars, pipeline_vars, analyzer_vars, url_vars, site, run_vars, lsh_call, power_call>>

NextPower == BuildLinkGraph \/ CalculatePagePowers

SpecPower == InitPower /\ [][NextPower]_vars

(***************************************************************************)
(* Properties of SpecPower                                                 *)
(***************************************************************************)

\* analyze_site has returned
Analyzed == raw_power # <<>>

\* C17: on the linear site (H -> P1, H -> P2, P1 -> P3), with damping 0.85
\* and 10 iterations, the score of H is above the score of P1, and the score
\* of P1 is not below the score of P3.
C17_LinearOrdering ==
    (Analyzed /\ pages = LinearPages) =>
        /\ page_powers[SiteOrder[1]] > page_powers[SiteOrder[2]]
        /\ page_powers[SiteOrder[2]] >= page_powers[SiteOrder[4]]

\* C18: for every non-empty page list analyze_site gives every page URL a
\* score, every score lies in [0, 100], the scores keep the order of the raw
\* powers, the lowest raw power scores 0 and the highest 100 where two raw
\* powers differ, and where all are equal nothing is divided by zero.
C18_MinMaxNormalized ==
    Analyzed =>
        /\ power_raised = "None"
        /\ DOMAIN page_powers = AllUrls(pages)
        /\ \A u \in DOMAIN page_powers : page_powers[u] \in 0..10000
        /\ \A u, v \in DOMAIN page_powers :
              BigLess(raw_power[u], raw_power[v]) => page_powers[u] <= page_powers[v]
        /\ (\E u, v \in DOMAIN raw_power : raw_power[u] # raw_power[v]) =>
              \A u \in DOMAIN page_powers :
                  /\ raw_power[u] = MinPower(raw_power) => page_powers[u] = 0
                  /\ raw_power[u] = MaxPower(raw_power) => page_powers[u] = 10000

\* C18 witness: analyze_site has scored three pages or more, one with 0, one
\* with 100 and one in between.
C18_Witness ==
    /\ Analyzed
    /\ Len(pages) >= 3
    /\ \E u, v, w \in DOMAIN page_powers :
          /\ page_powers[u] = 0
          /\ page_powers[v] \in 1..9999
          /\ page_powers[w] = 10000

(***************************************************************************)
(* A crawl of the web interface: run_crawl_async (src/app.py) starts a     *)
(* CrawlerRunner with use_subprocess, whose _crawl_website (src/crawl.py)  *)
(* runs the crawl script under subprocess.run with a timeout of one hour.  *)
(***************************************************************************)

\* the crawl script, lines 1288-1290: process.start() runs the spider
CrawlStep ==
    /\ subprocess_run = "running"
    /\ ~result_file.exists
    /\ NextSite

\* ProgressPipeline.process_item, crawl.py lines 1229-1237: the count of
\* discovered URLs the crawl script reports with a count of pages
ReportedDiscovered(pages_crawled, discovered) ==
    IF discovered = 0 \/ discovered < pages_crawled
    THEN Max(pages_crawled, (pages_crawled * 12) \div 10)
    ELSE discovered

\* monitor_progress, app.py lines 391-405 and 451: int(crawl_progress), from
\* the counts of progress.json
crawl_progress(pages_crawled, discovered) ==
    IF discovered > 0 /\ discovered >= pages_crawled
    THEN Min({60, 10 + (pages_crawled * 50) \div discovered})
    ELSE IF pages_crawled <= 5 THEN 10 + pages_crawled * 3
    ELSE IF pages_crawled <= 20 THEN 25 + ((pages_crawled - 5) * 3) \div 2
    ELSE Min({60, (95 + (pages_crawled - 20)) \div 2})

\* monitor_progress, app.py lines 367-484: the count of pages the crawl
\* script has reported is put into the job, and the progress worked out of it
MonitorProgress ==
    /\ subprocess_run = "running"
    /\ job.pages_crawled # Len(collected_items)
    /\ job' = [job EXCEPT !.pages_crawled = Len(collected_items),
                          !.progress = crawl_progress(Len(collected_items),
                                           ReportedDiscovered(Len(collected_items),
                                               Cardinality(discovered_urls)))]
    /\ UNCHANGED <<subprocess_run, result_file, runner, report_json>>
    /\ UNCHANGED <<progress_file, monitor>>
    /\ UNCHANGED <<frontier_vars, pipeline_vars, analyzer_vars, url_vars, site, power_vars, lsh_call, power_call>>

\* the crawl script, lines 1293-1316: the crawl has ended and the script dumps
\* the items and the skipped pages to the result file
ScriptEnds ==
    /\ subprocess_run = "running"
    /\ ~result_file.exists
    /\ RunEnded
    /\ result_file' = [exists |-> TRUE, items |-> collected_items,
                       skipped_pages |-> skipped_pages]
    /\ UNCHANGED <<subprocess_run, runner, report_json, job>>
    /\ UNCHANGED <<progress_file, monitor>>
    /\ UNCHANGED <<frontier_vars, pipeline_vars, analyzer_vars, url_vars, site, power_vars, lsh_call, power_call>>

\* _crawl_website, lines 1323-1376: subprocess.run returns, the results are
\* loaded and the result file is removed
LoadResults ==
    /\ subprocess_run = "running"
    /\ result_file.exists
    /\ subprocess_run' = "returned"
    /\ runner' = [crawled_items |-> result_file.items,
                  skipped_pages |-> result_file.skipped_pages]
    /\ result_file' = [exists |-> FALSE, items |-> <<>>, skipped_pages |-> <<>>]
    /\ UNCHANGED <<report_json, job>>
    /\ UNCHANGED <<progress_file, monitor>>
    /\ UNCHANGED <<frontier_vars, pipeline_vars, analyzer_vars, url_vars, site, power_vars, lsh_call, power_call>>

\* CrawlerRunner.run, lines 1115-1126, and run_crawl_async, app.py lines
\* 492-543: the reports are generated and the job is completed
Complete ==
    /\ subprocess_run = "returned"
    /\ job.status = "crawling"
    /\ report_json' = [written |-> TRUE, items |-> runner.crawled_items,
                       skipped_pages |-> runner.skipped_pages]
    /\ job' = [status |-> "completed", message |-> "Crawl completed successfully!",
               pages_crawled |-> Len(runner.crawled_items), progress |-> 100]
    /\ UNCHANGED <<subprocess_run, result_file, runner>>
    /\ UNCHANGED <<progress_file, monitor>>
    /\ UNCHANGED <<frontier_vars, pipeline_vars, analyzer_vars, url_vars, site, power_vars, lsh_call, power_call>>

\* subprocess.run kills the script after timeout=3600 and raises
\* TimeoutExpired (line 1328); _crawl_website raises "Crawl timed out after 1
\* hour" and removes the result file (lines 1365-1376); run passes the
\* exception on and run_crawl_async makes it the job's error (app.py lines
\* 545-562)
TimeoutExpired ==
    /\ subprocess_run = "running"
    /\ subprocess_run' = "TimeoutExpired"
    /\ result_file' = [exists |-> FALSE, items |-> <<>>, skipped_pages |-> <<>>]
    /\ job' = [job EXCEPT !.status = "error",
                          !.message = "Error: Crawl timed out after 1 hour"]
    /\ UNCHANGED <<runner, report_json>>
    /\ UNCHANGED <<progress_file, monitor>>
    /\ UNCHANGED <<frontier_vars, pipeline_vars, analyzer_vars, url_vars, site, power_vars, lsh_call, power_call>>

NextRun ==
    \/ CrawlStep
    \/ MonitorProgress
    \/ ScriptEnds
    \/ LoadResults
    \/ Complete
    \/ TimeoutExpired

SpecRun == InitSite /\ [][NextRun]_vars

(***************************************************************************)
(* Properties of SpecRun                                                   *)
(***************************************************************************)

\* C19: when the deadline of one hour cuts a run off that has gathered pages
\* or skipped records, these are returned to the caller as a valid result:
\* the reports are written from them and the job does not end as an error.
C19_PartialResultsReturned ==
    (subprocess_run = "TimeoutExpired" /\ (collected_items # <<>> \/ skipped_pages # <<>>)) =>
        /\ job.status # "error"
        /\ report_json.written
        /\ report_json.items = collected_items
        /\ report_json.skipped_pages = skipped_pages

(***************************************************************************)
(* MinHashLSH (src/duplicate_content_analyzer.py) called with signatures   *)
(* of any length                                                           *)
(***************************************************************************)

\* a signature of the given length: value everywhere, and other in its last
\* place
Signature(length, value, other) ==
    [i \in 1..length |-> IF i = length THEN other ELSE value]

\* the signatures of the calls: of the length compute_minhash gives
\* (num_perm), one shorter, empty, one band long and around it
Signatures ==
    {Signature(length, value, other) :
        length \in {0, 1, rows_per_band - 1, rows_per_band, rows_per_band + 1,
                    num_perm - 1, num_perm},
        value \in {1}, other \in {1, 2}}

InitLsh ==
    /\ \E sig1, sig2 \in Signatures :
          lsh_call = [NoLshCall EXCEPT !.sig1 = sig1, !.sig2 = sig2]
    /\ power_call = NoPowerCall
    /\ subprocess_run = "running"
    /\ result_file = [exists |-> FALSE, items |-> <<>>, skipped_pages |-> <<>>]
    /\ runner = [crawled_items |-> <<>>, skipped_pages |-> <<>>]
    /\ report_json = [written |-> FALSE, items |-> <<>>, skipped_pages |-> <<>>]
    /\ job = [status |-> "crawling", message |-> "Starting to crawl website...",
              pages_crawled |-> 0, progress |-> 10]
    /\ progress_file = NoProgressFile
    /\ monitor = MonitorNotStarted
    /\ pages = <<>>
    /\ link_graph = <<>>
    /\ outgoing_links = <<>>
    /\ raw_power = <<>>
    /\ page_powers = <<>>
    /\ power_raised = "None"
    /\ url_string = <<>>
    /\ url_normalized = NotCalled
    /\ url_renormalized = NotCalled
    /\ url_variant = <<>>
    /\ variant_normalized = NotCalled
    /\ site = <<>>
    /\ start_urls = <<Home>>
    /\ allowed_domains = {Home.netloc}
    /\ max_depth = 0
    /\ visited_urls = {}
    /\ discovered_urls = {}
    /\ skipped_pages = <<>>
    /\ pending = {}
    /\ dupefilter = {}
    /\ collected_items = <<>>
    /\ issued = [u \in RequestableURLs |-> 0]
    /\ last = NoCallback
    /\ advanced_analyzer = TRUE
    /\ PipelinesInit

\* MinHashLSH.estimate_jaccard(sig1, sig2), lines 191-206: no line of it raises
EstimateJaccard ==
    /\ lsh_call.name = "none"
    /\ lsh_call' = [lsh_call EXCEPT !.name = "estimate_jaccard",
                                    !.result = estimate_jaccard(lsh_call.sig1, lsh_call.sig2)]
    /\ UNCHANGED <<frontier_vars, pipeline_vars, analyzer_vars, url_vars, site,
                   power_vars, run_vars, power_call>>

\* MinHashLSH.add_document(doc_id, sig1), lines 136-157: no line of it raises
AddDocument ==
    /\ lsh_call.name = "none"
    /\ lsh_call' = [lsh_call EXCEPT !.name = "add_document"]
    /\ lsh_buckets' = add_document(lsh_buckets, _normalize_url(Home), lsh_call.sig1)
    /\ UNCHANGED <<url_to_normalized_text, url_to_hash, analyzer_hash_to_urls,
                   url_to_shingles, url_to_signature>>
    /\ UNCHANGED <<frontier_vars, pipeline_vars, url_vars, site, power_vars, run_vars, power_call>>

NextLsh == EstimateJaccard \/ AddDocument

SpecLsh == InitLsh /\ [][NextLsh]_vars

(***************************************************************************)
(* Properties of SpecLsh                                                   *)
(***************************************************************************)

\* the bands a document is in
BandsOf(doc_id) ==
    {band_id \in DOMAIN lsh_buckets :
        \E band_hash \in DOMAIN lsh_buckets[band_id] : doc_id \in lsh_buckets[band_id][band_hash]}

\* C20: a call of the LSH subsystem with two signatures of different length,
\* or with a signature shorter than num_bands * rows_per_band, raises an error
\* to its caller: it gives no similarity, and it inserts the document into no
\* band.
C20_FailsLoudly ==
    /\ (lsh_call.name = "estimate_jaccard" /\ Len(lsh_call.sig1) # Len(lsh_call.sig2)) =>
          lsh_call.raised # "None"
    /\ (lsh_call.name = "add_document" /\ Len(lsh_call.sig1) < num_bands * rows_per_band) =>
          /\ lsh_call.raised # "None"
          /\ BandsOf(_normalize_url(Home)) = {}

(***************************************************************************)
(* More properties of SpecSite                                             *)
(***************************************************************************)

\* C21: the URLs are fetched breadth-first: a response that parse is given
\* right after another one is never of a lower depth.
C21_BreadthFirst ==
    [][(last.kind = "parse" /\ last'.kind = "parse" /\ last' # last) =>
          last'.depth >= last.depth]_vars

(***************************************************************************)
(* More properties of SpecUrl                                              *)
(***************************************************************************)

\* C22: _normalize_url strips exactly one trailing '/' from the path: a path
\* that ends in '/' comes back without its last character and is otherwise
\* unchanged, so n trailing slashes become n - 1, and the root path '/'
\* becomes the empty path.
C22_StripsOneSlash ==
    LET before == urlparse(url_string).path
        after == urlparse(url_normalized).path
    IN  (/\ url_normalized \notin {NotCalled, NoURL}
         /\ Find(url_string, {";"}, 1) = 0
         /\ before # <<>>
         /\ before[Len(before)] = "/")
            => after = Upto(before, Len(before) - 1)

(***************************************************************************)
(* More properties of SpecDup                                              *)
(***************************************************************************)

\* the URLs that are in some bucket of some band
BucketURLs(buckets) ==
    UNION {buckets[band_id][band_hash] :
             <<band_id, band_hash>> \in
                 {pair \in (DOMAIN buckets) \X
                           UNION {DOMAIN buckets[b] : b \in DOMAIN buckets} :
                      pair[2] \in DOMAIN buckets[pair[1]]}}

\* the bands of buckets that hold doc_id
InBands(buckets, doc_id) ==
    {band_id \in DOMAIN buckets :
        \E band_hash \in DOMAIN buckets[band_id] : doc_id \in buckets[band_id][band_hash]}

\* C23: the candidates find_candidates gives for a page in process_item, line
\* 185, do not contain the page, and they are URLs of pages that were
\* processed before and whose signature is in all bands; no step leaves a
\* signature in only some of the bands.
C23_CandidatesProcessedBefore ==
    [][/\ \A doc_id \in BucketURLs(lsh_buckets') :
             InBands(lsh_buckets', doc_id) = 0..(num_bands - 1)
       /\ (Len(processed_items') = Len(processed_items) + 1
              /\ url_to_signature' # url_to_signature) =>
             LET url == processed_items'[Len(processed_items')].url
                 candidates == find_candidates(lsh_buckets', url, url_to_signature'[url])
             IN  /\ url \notin candidates
                 /\ \A key \in DOMAIN processed_items'[Len(processed_items')].similarity_scores :
                       key \in candidates
                 /\ \A candidate_url \in candidates :
                       /\ \E i \in DOMAIN processed_items :
                             processed_items[i].url = candidate_url
                       /\ candidate_url \in DOMAIN url_to_signature
                       /\ InBands(lsh_buckets, candidate_url) = 0..(num_bands - 1)]_vars

\* C23 witness: the page processed last had a candidate
C23_Witness ==
    /\ ~spider_closed
    /\ Len(processed_items) >= 2
    /\ LET url == processed_items[Len(processed_items)].url
       IN  /\ url \in DOMAIN url_to_signature
           /\ find_candidates(lsh_buckets, url, url_to_signature[url]) # {}

\* C24: a page whose shingle set is empty has the greatest value in every
\* place of its signature and matches nothing in the LSH step:
\* find_candidates gives no candidate for it, and it is a candidate of no
\* other page, however many empty pages were processed.
C24_EmptyPageMatchesNothing ==
    \A url \in DOMAIN url_to_shingles :
        url_to_shingles[url] = {} =>
            /\ url_to_signature[url] = [i \in 1..num_perm |-> MaxHash]
            /\ find_candidates(lsh_buckets, url, url_to_signature[url]) = {}
            /\ \A other \in DOMAIN url_to_signature :
                  url \notin find_candidates(lsh_buckets, other, url_to_signature[other])

(***************************************************************************)
(* SpecAnalyzer: one PagePowerAnalyzer (page_power_analyzer.py) whose      *)
(* public methods are called one after another with page lists that may    *)
(* differ from call to call.  The object keeps link_graph, incoming_links, *)
(* outgoing_links and page_powers between the calls.                       *)
(***************************************************************************)

\* how many calls the model makes on one analyzer
MaxCalls == 2

\* the page lists the methods are called with: one or two crawled pages with
\* at most one internal link, which may lead to the page itself
QueryLists ==
    { PowerRecords(DOMAIN links, links) :
        links \in { l \in UNION { [crawled -> SUBSET SitePages] :
                                     crawled \in SUBSET SitePages \ {{}} } :
                      /\ Cardinality(DOMAIN l) <= 2
                      /\ LinkCount(l) <= 1 } }

\* the URLs of a page list in the order of the list
UrlList(pgs) == [i \in DOMAIN pgs |-> pgs[i].url]

\* incoming_links, lines 111-113: for each URL some page of the graph links
\* to, how many pages link to it; a page that links to itself is one of them
incoming_links(graph) ==
    [u \in UNION {graph[s] : s \in DOMAIN graph} |->
        Cardinality({s \in DOMAIN graph : u \in graph[s]})]

\* get_orphan_pages, lines 343-344: the graph is built only while
\* incoming_links is empty
GraphForOrphans(pgs, graph) ==
    IF incoming_links(graph) = <<>> THEN _build_link_graph(pgs) ELSE graph

\* get_orphan_pages, lines 346-362: the URLs of the list other than the
\* homepage that incoming_links gives no count
get_orphan_pages(pgs, graph) ==
    {u \in AllUrls(pgs) :
        /\ u # homepage(UrlList(pgs))
        /\ Get(incoming_links(GraphForOrphans(pgs, graph)), u, 0) = 0}

\* _calculate_page_powers, lines 115-180, for the graph of the list
AnalyzedScores(pgs) ==
    Scores(Iterate(InitialPower(UrlList(pgs)), 0, _build_link_graph(pgs)), Len(pgs))

\* get_page_power_stats, lines 203-334, from the page_powers and the graph the
\* object holds: the counts, the extreme scores, the link analysis, the
\* orphans and the distribution (scores in hundredths)
PowerStats(pgs, graph, powers) ==
    [total_pages |-> Cardinality(DOMAIN powers),
     highest_power |-> CHOOSE p \in Range(powers) : \A q \in Range(powers) : q <= p,
     lowest_power |-> CHOOSE p \in Range(powers) : \A q \in Range(powers) : p <= q,
     link_analysis |->
        [u \in DOMAIN powers |->
            [incoming_links |-> {s \in DOMAIN graph : u \in graph[s]},
             outgoing_links |-> Get(graph, u, {})]],
     orphan_pages |-> get_orphan_pages(pgs, graph),
     power_distribution |->
        [high |-> Cardinality({u \in DOMAIN powers : powers[u] >= 7000}),
         medium |-> Cardinality({u \in DOMAIN powers :
                                    powers[u] >= 4000 /\ powers[u] < 7000}),
         low |-> Cardinality({u \in DOMAIN powers : powers[u] < 4000})]]

InitAnalyzer ==
    /\ NormalizerIdle
    /\ start_urls = <<Home>>
    /\ allowed_domains = {Home.netloc}
    /\ max_depth = 0
    /\ visited_urls = {}
    /\ discovered_urls = {}
    /\ skipped_pages = <<>>
    /\ pending = {}
    /\ dupefilter = {}
    /\ collected_items = <<>>
    /\ issued = [u \in RequestableURLs |-> 0]
    /\ last = NoCallback
    /\ advanced_analyzer = TRUE
    /\ PipelinesInit

\* analyze_site(pgs), lines 53-72: the graph is built anew and the powers
\* are calculated from it
AnalyzeSite(pgs) ==
    /\ power_call.calls < MaxCalls
    /\ pages' = pgs
    /\ link_graph' = _build_link_graph(pgs)
    /\ outgoing_links' = [u \in DOMAIN link_graph' |-> Cardinality(link_graph'[u])]
    /\ \E power \in {Iterate(InitialPower(UrlList(pgs)), 0, _build_link_graph(pgs))} :
          /\ raw_power' = power
          /\ page_powers' = Scores(power, Len(pgs))
    /\ power_call' = [calls |-> power_call.calls + 1, name |-> "analyze_site",
                      result |-> page_powers']
    /\ UNCHANGED power_raised
    /\ UNCHANGED <<frontier_vars, pipeline_vars, analyzer_vars, url_vars, site,
                   run_vars, lsh_call>>

\* get_orphan_pages(pgs), lines 336-362
GetOrphanPages(pgs) ==
    /\ power_call.calls < MaxCalls
    /\ pages' = pgs
    /\ link_graph' = GraphForOrphans(pgs, link_graph)
    /\ outgoing_links' = [u \in DOMAIN link_graph' |-> Cardinality(link_graph'[u])]
    /\ power_call' = [calls |-> power_call.calls + 1, name |-> "get_orphan_pages",
                      result |-> get_orphan_pages(pgs, link_graph)]
    /\ UNCHANGED <<raw_power, page_powers, power_raised>>
    /\ UNCHANGED <<frontier_vars, pipeline_vars, analyzer_vars, url_vars, site,
                   run_vars, lsh_call>>

\* get_page_power_stats(pgs), lines 182-334: analyze_site is called only
\* while page_powers is empty
GetPagePowerStats(pgs) ==
    /\ power_call.calls < MaxCalls
    /\ pages' = pgs
    /\ IF page_powers = <<>>
       THEN /\ \E power \in {Iterate(InitialPower(UrlList(pgs)), 0,
                                      _build_link_graph(pgs))} :
                  /\ raw_power' = power
                  /\ page_powers' = Scores(power, Len(pgs))
            /\ link_graph' = _build_link_graph(pgs)
       ELSE /\ UNCHANGED <<raw_power, page_powers>>
            /\ link_graph' = GraphForOrphans(pgs, link_graph)
    /\ outgoing_links' = [u \in DOMAIN link_graph' |-> Cardinality(link_graph'[u])]
    /\ power_call' = [calls |-> power_call.calls + 1, name |-> "get_page_power_stats",
                      result |-> PowerStats(pgs,
                                            IF page_powers = <<>>
                                            THEN _build_link_graph(pgs) ELSE link_graph,
                                            page_powers')]
    /\ UNCHANGED power_raised
    /\ UNCHANGED <<frontier_vars, pipeline_vars, analyzer_vars, url_vars, site,
                   run_vars, lsh_call>>

NextAnalyzer ==
    \/ \E pgs \in QueryLists : AnalyzeSite(pgs)
    \/ \E pgs \in QueryLists : GetOrphanPages(pgs)
    \/ \E pgs \in QueryLists : GetPagePowerStats(pgs)

SpecAnalyzer == InitAnalyzer /\ [][NextAnalyzer]_vars

\* the graph the object holds is the graph of the pages of the last call
GraphOfPages == link_graph = _build_link_graph(pages)

\* C25: the list get_orphan_pages returns, from the graph of the pages it is
\* given, holds exactly the crawled pages other than the root page that no
\* OTHER crawled page links to: a page's link to itself does not count.
C25_OrphansIgnoreSelfLinks ==
    (power_call.name = "get_orphan_pages" /\ GraphOfPages) =>
        power_call.result =
            {u \in AllUrls(pages) :
                /\ u # homepage(UrlList(pages))
                /\ ~ \E i \in DOMAIN pages :
                        pages[i].url # u /\ u \in pages[i].internal_links}

\* what a method gives when it is called on an analyzer no method was called on
FreshResult(name, pgs) ==
    CASE name = "analyze_site" -> AnalyzedScores(pgs)
      [] name = "get_orphan_pages" -> get_orphan_pages(pgs, <<>>)
      [] name = "get_page_power_stats" ->
            PowerStats(pgs, _build_link_graph(pgs), AnalyzedScores(pgs))
      [] OTHER -> {}

\* C26: the Page Power queries are a pure function of the page set they are
\* given: whatever was called on the analyzer before, analyze_site,
\* get_orphan_pages and get_page_power_stats give what a fresh analyzer gives
\* for the same pages.
C26_QueriesArePure ==
    power_call.name # "none" => power_call.result = FreshResult(power_call.name, pages)

(* More properties of Spec *)

\* the URLs of the requests that were issued and are not yet processed
PendingURLs == {r.url : r \in pending}

\* C27: in every reachable state of the frontier, discovered_urls is the
\* union of the visited URLs and the URLs of the pending requests: it holds
\* all of them and no other URL.
C27_DiscoveredIsVisitedOrPending ==
    discovered_urls = visited_urls \cup PendingURLs

(***************************************************************************)
(* SpecTwoPaths: the crawl of a site on which a page can be reached on a   *)
(* short and on a long path; the engine serves the pending requests in any *)
(* order (no DEPTH_PRIORITY and no FIFO queue in settings.py, 32 requests  *)
(* in flight).                                                             *)
(***************************************************************************)
PageE == Url(<<"e","x">>, <<"/","e">>, <<>>)                \* https://ex/e
PageF == Url(<<"e","x">>, <<"/","f">>, <<>>)                \* https://ex/f

TwoPathPages == {_normalize_url(u) : u \in {Home, PageA, PageB, PageC, PageE, PageF}}

\* H -> A -> C -> E and H -> B -> E: E is two links and three links away
\* from H; E -> F
TwoPathSite ==
    [page \in TwoPathPages |->
        IF page = _normalize_url(Home) THEN {PageA, PageB}
        ELSE IF page = _normalize_url(PageA) THEN {PageC}
        ELSE IF page = _normalize_url(PageB) THEN {PageE}
        ELSE IF page = _normalize_url(PageC) THEN {PageE}
        ELSE IF page = _normalize_url(PageE) THEN {PageF}
        ELSE {}]

\* the sites that have some of the links of TwoPathSite
TwoPathSites ==
    LET anchors == {pair \in TwoPathPages \X {PageA, PageB, PageC, PageE, PageF} :
                        pair[2] \in TwoPathSite[pair[1]]}
    IN  {[page \in TwoPathPages |-> {pair[2] : pair \in {q \in kept : q[1] = page}}] :
            kept \in SUBSET anchors}

InitTwoPaths ==
    /\ site \in TwoPathSites
    /\ PowerIdle
    /\ start_urls = <<Home>>
    /\ allowed_domains = {start_urls[1].netloc}
    /\ max_depth \in 1..(MaxMaxDepth + 1)
    /\ visited_urls = {}
    /\ discovered_urls = {}
    /\ skipped_pages = <<>>
    /\ pending = {Request(start_urls[1], 0, FALSE)}
    /\ dupefilter = {}
    /\ collected_items = <<>>
    /\ issued = [u \in RequestableURLs \cup TwoPathPages |->
                    IF u = _normalize_url(start_urls[1]) THEN 1 ELSE 0]
    /\ last = NoCallback
    /\ advanced_analyzer = TRUE
    /\ PipelinesInit
    /\ url_string = <<>>
    /\ url_normalized = NotCalled
    /\ url_renormalized = NotCalled
    /\ url_variant = <<>>
    /\ variant_normalized = NotCalled

NextTwoPaths == \E req \in pending : FetchPage(req)

SpecTwoPaths == InitTwoPaths /\ [][NextTwoPaths]_vars

\* the URLs of the start URL's host that the anchors of a page lead to
InternalTargets(page) ==
    {n \in {_normalize_url(u) : u \in Get(site, page, {})} \ {None} :
        n.netloc = StartHost}

\* the URLs at most k links away from the seed, on chains through pages that
\* became PageRecords
RECURSIVE WithinLinks(_)
WithinLinks(k) ==
    IF k = 0 THEN {_normalize_url(start_urls[1])}
    ELSE WithinLinks(k - 1) \cup
         UNION {InternalTargets(page) : page \in WithinLinks(k - 1) \cap ItemURLs}

\* C28: when the run ends, every internal URL that a chain of at most
\* max_depth links through successfully extracted pages leads to from the
\* seed has a PageRecord or a SkippedPageRecord, in whatever order the
\* pending requests were served.
C28_ReachableWithinDepthIsFetched ==
    RunEnded => WithinLinks(max_depth) \subseteq ItemURLs \cup SkippedURLs

\* C29: in every reachable state each normalized URL is in skipped_pages at
\* most once, whether parse or the error callback put it there, and no URL
\* is both in skipped_pages and among the visited URLs or the PageRecords.
C29_SkippedOnceAndNotVisited ==
    /\ \A i, j \in DOMAIN skipped_pages :
          skipped_pages[i].url = skipped_pages[j].url => i = j
    /\ SkippedURLs \cap (visited_urls \cup ItemURLs) = {}

(***************************************************************************)
(* SpecJob: run_crawl_async (src/app.py), the thread that runs a crawl     *)
(* job, and the monitor_progress thread it starts.  Both write to          *)
(* active_crawls[job_id] with no lock.  The crawl script is what writes    *)
(* progress.json.                                                          *)
(***************************************************************************)

\* how often the monitor's loop runs at most (max_iterations, line 369, is
\* 3600 in the code)
MaxIterations == 3

InitJob ==
    /\ job = [status |-> "starting", message |-> "Initializing crawler...",
              pages_crawled |-> 0, progress |-> 0]
    /\ progress_file = NoProgressFile
    /\ monitor = MonitorNotStarted
    /\ subprocess_run = "not started"
    /\ result_file = [exists |-> FALSE, items |-> <<>>, skipped_pages |-> <<>>]
    /\ runner = [crawled_items |-> <<>>, skipped_pages |-> <<>>]
    /\ report_json = [written |-> FALSE, items |-> <<>>, skipped_pages |-> <<>>]
    /\ lsh_call = NoLshCall
    /\ power_call = NoPowerCall
    /\ pages = <<>>
    /\ link_graph = <<>>
    /\ outgoing_links = <<>>
    /\ raw_power = <<>>
    /\ page_powers = <<>>
    /\ power_raised = "None"
    /\ url_string = <<>>
    /\ url_normalized = NotCalled
    /\ url_renormalized = NotCalled
    /\ url_variant = <<>>
    /\ variant_normalized = NotCalled
    /\ site = <<>>
    /\ start_urls = <<Home>>
    /\ allowed_domains = {Home.netloc}
    /\ max_depth = 0
    /\ visited_urls = {}
    /\ discovered_urls = {}
    /\ skipped_pages = <<>>
    /\ pending = {}
    /\ dupefilter = {}
    /\ collected_items = <<>>
    /\ issued = [u \in RequestableURLs |-> 0]
    /\ last = NoCallback
    /\ advanced_analyzer = TRUE
    /\ PipelinesInit

\* what no step of the two threads touches
JobOnly ==
    UNCHANGED <<frontier_vars, pipeline_vars, analyzer_vars, url_vars, site, power_vars,
                lsh_call, power_call, result_file, report_json>>

\* run_crawl_async, lines 323-326
Initializing ==
    /\ job.status = "starting"
    /\ job' = [job EXCEPT !.status = "initializing",
                          !.message = "Initializing crawler...", !.progress = 5]
    /\ UNCHANGED <<subprocess_run, runner, progress_file, monitor>>
    /\ JobOnly

\* run_crawl_async, lines 339-342
StartCrawling ==
    /\ job.status = "initializing"
    /\ job' = [job EXCEPT !.status = "crawling",
                          !.message = "Starting to crawl website...", !.progress = 10]
    /\ UNCHANGED <<subprocess_run, runner, progress_file, monitor>>
    /\ JobOnly

\* run_crawl_async, lines 486-490: the monitor thread is started and
\* runner.run() is called
StartMonitor ==
    /\ job.status = "crawling"
    /\ subprocess_run = "not started"
    /\ monitor' = [monitor EXCEPT !.at = "while"]
    /\ subprocess_run' = "running"
    /\ UNCHANGED <<job, runner, progress_file>>
    /\ JobOnly

\* the crawl script, crawl.py lines 1200-1258: progress.json is written with
\* the count of items, which grows, and the count of discovered URLs
WriteProgress(pages_crawled, discovered) ==
    /\ subprocess_run = "running"
    /\ pages_crawled >= progress_file.pages_crawled
    /\ discovered >= progress_file.discovered_urls
    /\ discovered >= pages_crawled
    /\ progress_file' = [exists |-> TRUE, pages_crawled |-> pages_crawled,
                         discovered_urls |-> discovered]
    /\ progress_file' # progress_file
    /\ UNCHANGED <<job, subprocess_run, runner, monitor>>
    /\ JobOnly

\* run_crawl_async, lines 490-496: runner.run() has returned with n items
RunReturns(n) ==
    /\ subprocess_run = "running"
    /\ n >= progress_file.pages_crawled
    /\ subprocess_run' = "returned"
    /\ runner' = [runner EXCEPT !.crawled_items = [i \in 1..n |-> [url |-> SiteOrder[i]]]]
    /\ job' = [job EXCEPT !.status = "processing",
                          !.message = "Processing results and checking links...",
                          !.progress = 70]
    /\ UNCHANGED <<progress_file, monitor>>
    /\ JobOnly

\* run_crawl_async, lines 545-556: runner.run() has raised
RunRaises ==
    /\ subprocess_run = "running"
    /\ subprocess_run' = "raised"
    /\ job' = [job EXCEPT !.status = "error", !.message = "Error: "]
    /\ UNCHANGED <<runner, progress_file, monitor>>
    /\ JobOnly

\* run_crawl_async, lines 508-511
Generating ==
    /\ job.status = "processing"
    /\ job' = [job EXCEPT !.status = "generating", !.message = "Generating reports...",
                          !.progress = 90]
    /\ UNCHANGED <<subprocess_run, runner, progress_file, monitor>>
    /\ JobOnly

\* run_crawl_async, lines 521-535
Completed ==
    /\ job.status = "generating"
    /\ job' = [job EXCEPT !.status = "completed",
                          !.message = "Crawl completed successfully!",
                          !.progress = 100,
                          !.pages_crawled = Len(runner.crawled_items)]
    /\ UNCHANGED <<subprocess_run, runner, progress_file, monitor>>
    /\ JobOnly

\* monitor_progress, line 374: the test of the while loop
MonitorWhile ==
    /\ monitor.at = "while"
    /\ monitor' = [monitor EXCEPT !.at =
                      IF /\ job.status \in {"crawling", "initializing", "processing"}
                         /\ monitor.iteration < MaxIterations
                      THEN "read" ELSE "ended"]
    /\ UNCHANGED <<job, subprocess_run, runner, progress_file>>
    /\ JobOnly

\* monitor_progress, lines 380-405: progress.json is read and crawl_progress
\* worked out; without the file, or with nothing to report, lines 482-483
MonitorRead ==
    /\ monitor.at = "read"
    /\ IF /\ progress_file.exists
          /\ \/ progress_file.pages_crawled > monitor.last_pages
             \/ progress_file.pages_crawled > 0
             \/ monitor.iteration = 0
       THEN monitor' = [monitor EXCEPT
                           !.at = "write",
                           !.pages = progress_file.pages_crawled,
                           !.crawl_progress =
                               crawl_progress(progress_file.pages_crawled,
                                              progress_file.discovered_urls)]
       ELSE monitor' = [monitor EXCEPT !.at = "while", !.iteration = @ + 1]
    /\ UNCHANGED <<job, subprocess_run, runner, progress_file>>
    /\ JobOnly

\* monitor_progress, lines 446-451 and 477-483: the job is written
MonitorWrite ==
    /\ monitor.at = "write"
    /\ job' = [job EXCEPT !.pages_crawled = monitor.pages,
                          !.progress = monitor.crawl_progress]
    /\ monitor' = [monitor EXCEPT !.at = "while", !.last_pages = monitor.pages,
                                  !.iteration = @ + 1]
    /\ UNCHANGED <<subprocess_run, runner, progress_file>>
    /\ JobOnly

NextJob ==
    \/ Initializing
    \/ StartCrawling
    \/ StartMonitor
    \/ \E pages_crawled \in 1..MaxPages, discovered \in 1..(MaxPages + 1) :
          WriteProgress(pages_crawled, discovered)
    \/ \E n \in 0..MaxPages : RunReturns(n)
    \/ RunRaises
    \/ Generating
    \/ Completed
    \/ MonitorWhile
    \/ MonitorRead
    \/ MonitorWrite

SpecJob == InitJob /\ [][NextJob]_vars

\* C30: in every interleaving of the crawl thread and the monitor thread the
\* progress of a job never decreases, and when the job is completed its
\* progress is 100 and stays 100 whatever the monitor thread writes later.
C30_ProgressNeverDecreases ==
    [][/\ job'.progress >= job.progress
       /\ job'.status = "completed" => job'.progress = 100]_vars

====
